---- MODULE Spec2Model ----
(***************************************************************************)
(* Verification model of Hypr-Vimx (rust_hintsx): the label assigner       *)
(* (src/src/hints.rs), the accessibility discovery backend                 *)
(* (src/src/backends/atspi_backend.rs), the vision backend's filter        *)
(* (src/src/backends/opencv_backend.rs) and the top-level run              *)
(* (src/src/bin/hintsx.rs).                                                *)
(***************************************************************************)
EXTENDS Integers, Sequences, FiniteSets, TLC

(***************************************************************************)
(* Bounds of the model.                                                    *)
(***************************************************************************)
MaxTargets == 5
MaxAlphabet == 3
MaxDaemons == 2
MaxClients == 2

\* The hintsd processes and the processes that connect to the endpoint.
Daemons == 1..MaxDaemons
Clients == 1..MaxClients

\* Characters an alphabet string is made of; labels are sequences of them.
Chars == {"a", "b", "c"}

\* hints.rs Child: an integer pixel rectangle.
Rect(x, y, w, h) == [absolute_x |-> x, absolute_y |-> y, width |-> w, height |-> h]

\* Children handed to generate_hints in the label-assigner specification.
ChildPool == {Rect(0, 0, 10, 10), Rect(50, 50, 10, 10)}

SeqsUpTo(S, n) == UNION {[1..k -> S] : k \in 0..n}

VARIABLES
    hChildren,   \* generate_hints: children: &[Child]
    hAlphabet,   \* generate_hints: alphabet, as its sequence of chars
    hPc,         \* generate_hints: position: "start", "loop", "done", "abort"
    hIdx,        \* generate_hints: idx of the enumerate() loop
    hNeeded,     \* generate_hints: needed
    hResult      \* generate_hints: result: HintMap, a function label -> Child

hvars == <<hChildren, hAlphabet, hPc, hIdx, hNeeded, hResult>>

VARIABLES
    accKids,        \* accessibility service: get_children of each path
    accExt,         \* accessibility service: get_extents of each path
    current_level,  \* walk_iterative: current_level
    visited,        \* walk_iterative: visited
    results,        \* walk_iterative: the outputs of the level's futures, None while pending
    depth,          \* walk_iterative: depth
    wOut,           \* walk_iterative: out
    wFocus,         \* walk_iterative: focus_extents
    wPc             \* walk_iterative: "loop" or "done"

VARIABLES
    overlay_target,      \* Config.overlay_target: "window" or "screen"
    window_system_type,  \* WindowSystem.window_system_type: "x11" or "wayland"
    cvRects,             \* OpenCvBackend::get_children: bounding rects of the contours
    cvChildren,          \* OpenCvBackend::get_children: children
    cvFocus,             \* OpenCvBackend::get_children: focus_extents
    cvPc                 \* OpenCvBackend::get_children: position

VARIABLES
    accState,     \* accessibility service: get_state: "none", "focused", "active"
    accRole,      \* accessibility service: get_role is a window-like role
    accParent,    \* accessibility service: parent of each path
    alphabet,     \* Config.alphabet
    enable,       \* Config.backends.enable, the names build_backends knows
    accBuild      \* accessibility service: the proxy of each path can be built

VARIABLES
    aPc,          \* collect_children: position
    aStart,       \* collect_children: start path of the first walk
    aFocus,       \* collect_children: focus_extents
    walks,        \* history: the enumerations this collect_children has run
    asked,        \* history: the geometry queries this collect_children has made
    ff            \* find_focused_window: stack, first_window, focused_node, ..

VARIABLES
    rPc,            \* hintsx main: position
    rIdx,           \* hintsx main: index of the backend loop
    children,       \* hintsx main: children
    focus_extents,  \* hintsx main: focus_extents
    backend_used    \* hintsx main: backend_used

envvars == <<accKids, accExt, accState, accRole, accParent, accBuild,
             overlay_target, window_system_type, alphabet, enable>>

avars == <<aPc, aStart, aFocus, walks, asked, ff>>

rvars == <<rPc, rIdx, children, focus_extents, backend_used>>

wvars == <<current_level, visited, results, depth, wOut, wFocus, wPc>>

cvvars == <<cvRects, cvChildren, cvFocus, cvPc>>

VARIABLES
    sockFile,        \* UNIX_DOMAIN_SOCKET_FILE: 0 when the path does not exist,
                     \* else the daemon whose bind created the file
    dm,              \* hintsd main of each daemon: position, devices, history
    scale_factor,    \* VirtualMouse.scale_factor
    overflow_checks, \* the binaries are built with overflow checks (debug profile)
    backlog,         \* the listener's queue of connections not yet accepted
    accepted,        \* history: the connections in the order they were accepted
    srv,             \* hintsd main loop and handle_connection: position and locals
    mc,              \* the running VirtualMouse call: position and locals
    devLog,          \* history: device events, external calls, sleeps, frames
    cl,              \* ipc::send of each client: position and locals
    conn             \* the stream of each client: bytes in flight, closed ends

startvars == <<sockFile, dm>>

servevars == <<scale_factor, overflow_checks, backlog, accepted, srv, mc, devLog,
               cl, conn>>

ipcvars == <<startvars, servevars>>

VARIABLES
    oPc,           \* overlay: "off", "shown", "hidden" (timeout armed), "closed", "quit"
    input,         \* build_ui: input, the chars typed towards a label
    repeat_count,  \* build_ui: repeat_count
    oTimer,        \* the closure handed to glib::timeout_add_local_once, or None
    oSent,         \* history: the requests the overlay handed to send, in order
    oAwait,        \* the closure's progress: requests issued, and whether send has returned
    oTyped         \* history: the key presses since the overlay was shown

ovars == <<oPc, input, repeat_count, oTimer, oSent, oAwait, oTyped>>

vars == <<hvars, envvars, wvars, cvvars, avars, rvars, ipcvars, ovars>>

(***************************************************************************)
(* generate_hints (src/src/hints.rs)                                       *)
(***************************************************************************)
RECURSIVE Pow(_, _)
Pow(b, e) == IF e = 0 THEN 1 ELSE b * Pow(b, e - 1)

\* ceil(log_radix(n)) for n >= 1, radix >= 2: the least w with radix^w >= n.
\* (f64: ln(n)/ln(radix) is exact enough for every n below 125, the first
\* value where the quotient rounds above an integral logarithm.)
RECURSIVE CeilLogFrom(_, _, _)
CeilLogFrom(n, radix, w) ==
    IF Pow(radix, w) >= n THEN w ELSE CeilLogFrom(n, radix, w + 1)

\* `needed` of generate_hints: (len as f64).log(radix as f64).ceil() as u32.
\* radix = 1 divides by ln(1) = 0: 0/0 = NaN casts to 0, x/0 = +inf
\* saturates to u32::MAX, which is reported as -1 (the loop cannot finish).
\* radix = 0 divides by ln(0) = -inf: the quotient -0.0 casts to 0.
NeededFloor(len, radix) ==
    IF radix = 0 THEN 0
    ELSE IF radix = 1 THEN (IF len = 1 THEN 0 ELSE -1)
    ELSE IF Pow(radix, CeilLogFrom(len, radix, 0)) = len
         THEN CeilLogFrom(len, radix, 0)
         ELSE CeilLogFrom(len, radix, 0) - 1

Needed(len, radix) ==
    IF radix = 0 THEN 0
    ELSE IF radix = 1 THEN (IF len = 1 THEN 0 ELSE -1)
    ELSE CeilLogFrom(len, radix, 0)

\* The inner loop `for _ in 0..needed`: the pushed chars, least significant
\* digit first.
RECURSIVE PushDigits(_, _, _)
PushDigits(n, k, base) ==
    IF k = 0 THEN <<>>
    ELSE <<base[(n % Len(base)) + 1]>> \o PushDigits(n \div Len(base), k - 1, base)

NoReverse(s) == s

Reverse(s) == [i \in 1..Len(s) |-> s[Len(s) + 1 - i]]

\* `n % radix` and `n /= radix` panic on radix = 0 (reachable only past the
\* early return).
DigitPanics(idx, needed, base) == Len(base) = 0 /\ (needed > 0 \/ idx > 0)

\* LabelOf with `n /= radix` lost: every digit is idx % radix.
LabelOfNoDivide(idx, needed, base) ==
    [i \in 1..needed |-> base[(idx % Len(base)) + 1]]

\* The body of the enumerate() loop up to `label`: digits, the extra push
\* when n is still positive, and the reversal.
LabelOf(idx, needed, base) ==
    LET radix == Len(base)
        rest == idx \div Pow(radix, needed)
        label_chars == PushDigits(idx, needed, base)
                       \o (IF rest > 0 THEN <<base[(rest % radix) + 1]>> ELSE <<>>)
    IN  Reverse(label_chars)

\* HashMap::insert: a present key has its value replaced.
MapInsert(m, k, v) == [l \in DOMAIN m \cup {k} |-> IF l = k THEN v ELSE m[l]]

EmptyMap == [l \in {} |-> 0]

EarlyReturnChildrenOnly(targets, chars) == targets = <<>>

\* line 16: children.is_empty() || alphabet.is_empty()
EarlyReturn(targets, chars) == targets = <<>> \/ chars = <<>>

\* lines 15-22: the early return, then base, radix and needed.
HintStart ==
    /\ hPc = "start"
    /\ IF EarlyReturn(hChildren, hAlphabet)
       THEN /\ hPc' = "done"
            /\ hNeeded' = 0
       ELSE /\ hNeeded' = Needed(Len(hChildren), Len(hAlphabet))
            /\ hPc' = IF hNeeded' < 0 THEN "abort" ELSE "loop"
    /\ hResult' = EmptyMap
    /\ hIdx' = 0
    /\ UNCHANGED <<hChildren, hAlphabet, envvars, ovars, ipcvars, avars, rvars, wvars, cvvars>>

\* lines 24-38: one iteration of `for (idx, child) in children.iter().enumerate()`.
HintIter ==
    /\ hPc = "loop"
    /\ hIdx < Len(hChildren)
    /\ IF DigitPanics(hIdx, hNeeded, hAlphabet)
       THEN /\ hPc' = "abort"
            /\ UNCHANGED <<hResult, hIdx>>
       ELSE /\ hResult' = MapInsert(hResult, LabelOf(hIdx, hNeeded, hAlphabet),
                                     hChildren[hIdx + 1])
            /\ hIdx' = hIdx + 1
            /\ hPc' = hPc
    /\ UNCHANGED <<hChildren, hAlphabet, hNeeded, envvars, ovars, ipcvars, avars, rvars, wvars, cvvars>>

\* line 40: the loop is exhausted, result is returned.
HintReturn ==
    /\ hPc = "loop"
    /\ hIdx = Len(hChildren)
    /\ hPc' = "done"
    /\ UNCHANGED <<hChildren, hAlphabet, hIdx, hNeeded, hResult, envvars, ovars, ipcvars, avars, rvars, wvars, cvvars>>

\* No overlay window was built.
NoOverlay ==
    /\ oPc = "off" /\ input = <<>> /\ repeat_count = 0
    /\ oTimer = <<>> /\ oSent = <<>> /\ oTyped = <<>>
    /\ oAwait = [issued |-> 0, inflight |-> FALSE]

\* Neither collect_children nor main is running.
NoRun ==
    /\ aPc = "idle" /\ aStart = 0 /\ aFocus = <<>> /\ walks = <<>> /\ asked = <<>>
    /\ ff = [status |-> "idle", stack |-> <<>>, first_window |-> <<>>,
             focused_node |-> <<>>, current_path |-> -1, found |-> <<>>]
    /\ rPc = "idle" /\ rIdx = 0 /\ children = <<>>
    /\ focus_extents = <<>> /\ backend_used = ""

\* A daemon process that was not started.
DaemonOff == [pc |-> "off", devices |-> {}, bound |-> FALSE, failed |-> <<>>]

\* A daemon in its accept loop (hintsd.rs 35).
DaemonListening ==
    [pc |-> "listening", devices |-> {"rel", "abs"}, bound |-> TRUE, failed |-> <<>>]

\* No VirtualMouse call is running.
MouseIdle ==
    [pc |-> "idle", op |-> "none", iteration |-> 0, ydotool_worked |-> FALSE,
     state_idx |-> 0, result |-> <<>>]

\* The locals of the accept loop between two connections.
SrvAccept ==
    [pc |-> "accept", stream |-> 0, len |-> 0, buf |-> <<>>, req |-> <<>>, resp |-> <<>>]

\* A process that makes no call of ipc::send.
ClientOff ==
    [pc |-> "off", kind |-> "send", request |-> <<>>, raw |-> <<>>, len |-> 0,
     buf |-> <<>>, ret |-> <<>>, connects |-> 0, frames |-> 0]

\* No stream: nothing in flight, both ends closed.
ConnNone ==
    [up |-> <<>>, down |-> <<>>, client_open |-> FALSE, daemon_open |-> FALSE,
     decoded |-> 0, responses |-> 0]

\* No request is served and no client is connected.
ServeIdle ==
    /\ scale_factor = 1 /\ overflow_checks = FALSE
    /\ backlog = <<>> /\ accepted = <<>>
    /\ srv = SrvAccept /\ mc = MouseIdle /\ devLog = <<>>
    /\ cl = [c \in Clients |-> ClientOff]
    /\ conn = [c \in Clients |-> ConnNone]

\* No daemon has started and no client is connected.
NoIpc ==
    /\ sockFile = 0
    /\ dm = [d \in Daemons |-> DaemonOff]
    /\ ServeIdle

\* No discovery run and no label assignment is in progress.
NoDiscovery ==
    /\ hChildren = <<>> /\ hAlphabet = <<>> /\ hPc = "idle"
    /\ hIdx = 0 /\ hNeeded = 0 /\ hResult = [l \in {} |-> 0]
    /\ accKids = <<>> /\ accExt = <<>> /\ accState = <<>> /\ accRole = <<>>
    /\ accParent = <<>> /\ accBuild = <<>>
    /\ overlay_target = "window" /\ window_system_type = "wayland"
    /\ alphabet = <<>> /\ enable = <<>>
    /\ current_level = <<>> /\ visited = {} /\ results = <<>> /\ depth = 0
    /\ wOut = <<>> /\ wFocus = <<>> /\ wPc = "idle"
    /\ cvRects = <<>> /\ cvChildren = <<>> /\ cvFocus = <<>> /\ cvPc = "idle"
    /\ NoRun

HintsInit ==
    /\ NoOverlay
    /\ hChildren \in SeqsUpTo(ChildPool, MaxTargets)
    /\ hAlphabet \in SeqsUpTo(Chars, MaxAlphabet)
    /\ hPc = "start"
    /\ hIdx = 0
    /\ hNeeded = 0
    /\ hResult = EmptyMap
    /\ accKids = <<>> /\ accExt = <<>>
    /\ overlay_target = "window" /\ window_system_type = "wayland"
    /\ current_level = <<>> /\ visited = {} /\ results = <<>> /\ depth = 0
    /\ wOut = <<>> /\ wFocus = <<>> /\ wPc = "idle"
    /\ cvRects = <<>> /\ cvChildren = <<>> /\ cvFocus = <<>> /\ cvPc = "idle"
    /\ accState = <<>> /\ accRole = <<>> /\ accParent = <<>>
    /\ accBuild = <<>>
    /\ alphabet = hAlphabet /\ enable = <<>>
    /\ NoRun
    /\ NoIpc

HintsNext == HintStart \/ HintIter \/ HintReturn

SpecHints == HintsInit /\ [][HintsNext]_vars

(***************************************************************************)
(* Properties of the label assigner.                                       *)
(***************************************************************************)
\* An alphabet of R characters: R pairwise distinct digit symbols.
IsAlphabet(base) == \A i, j \in 1..Len(base) : base[i] = base[j] => i = j

IsProperPrefix(s, t) ==
    /\ Len(s) < Len(t)
    /\ \A i \in 1..Len(s) : s[i] = t[i]

\* Base-R numeral of i with exactly w digits, most significant first, digit
\* d written as the alphabet's d-th character (0-based d).
Numeral(i, w, base) ==
    [j \in 1..w |-> base[((i \div Pow(Len(base), w - j)) % Len(base)) + 1]]

\* Value of a label read as a base-R numeral.
DigitValue(c, base) == (CHOOSE d \in 1..Len(base) : base[d] = c) - 1

RECURSIVE Decode(_, _)
Decode(label, base) ==
    IF label = <<>> THEN 0
    ELSE Decode(SubSeq(label, 1, Len(label) - 1), base) * Len(base)
         + DigitValue(label[Len(label)], base)

HintsReturned == hPc = "done"

\* C1: for N >= 0 targets and an alphabet of R >= 2 (distinct) characters the
\* returned map has exactly N entries, and every target is the value of one
\* label of its own.
C1_ExactlyNUniqueLabels ==
    (HintsReturned /\ Len(hAlphabet) >= 2 /\ IsAlphabet(hAlphabet)) =>
        /\ Cardinality(DOMAIN hResult) = Len(hChildren)
        /\ \E f \in [1..Len(hChildren) -> DOMAIN hResult] :
              /\ \A i, j \in 1..Len(hChildren) : f[i] = f[j] => i = j
              /\ \A i \in 1..Len(hChildren) : hResult[f[i]] = hChildren[i]

C1_Witness ==
    /\ HintsReturned
    /\ Len(hAlphabet) = 2 /\ IsAlphabet(hAlphabet)
    /\ Len(hChildren) = MaxTargets
    /\ Cardinality(DOMAIN hResult) = MaxTargets

\* C2: in the map generate_hints builds, no label is a proper prefix of
\* another label.
C2_NoProperPrefix ==
    \A s, t \in DOMAIN hResult : ~IsProperPrefix(s, t)

C2_Witness ==
    /\ HintsReturned
    /\ Cardinality(DOMAIN hResult) >= 3
    /\ \E s \in DOMAIN hResult : Len(s) >= 2

\* C3: for N >= 1 and R >= 2 every label has length w = max(1, ceil(log_R N)),
\* so a single target gets a label of one character.
C3_WidthAtLeastOne ==
    (HintsReturned /\ Len(hChildren) >= 1
                   /\ Len(hAlphabet) >= 2 /\ IsAlphabet(hAlphabet)) =>
        \A s \in DOMAIN hResult :
            /\ Len(s) >= 1
            /\ Pow(Len(hAlphabet), Len(s)) >= Len(hChildren)
            /\ Len(s) = 1 \/ Pow(Len(hAlphabet), Len(s) - 1) < Len(hChildren)

\* C4: the label of the target at 0-based index i is the base-R numeral of i,
\* most significant digit first, at the common width; decoding the labels
\* gives every index 0..N-1 exactly once; 3 targets over "ab" get aa, ab, ba.
C4_LabelIsBaseRNumeral ==
    (HintsReturned /\ Len(hAlphabet) >= 2 /\ IsAlphabet(hAlphabet)) =>
        /\ \E w \in 0..MaxTargets + 1 :
              /\ \A s \in DOMAIN hResult : Len(s) = w
              /\ \A i \in 0..Len(hChildren) - 1 :
                    /\ Numeral(i, w, hAlphabet) \in DOMAIN hResult
                    /\ hResult[Numeral(i, w, hAlphabet)] = hChildren[i + 1]
        /\ {Decode(s, hAlphabet) : s \in DOMAIN hResult} = 0..Len(hChildren) - 1
        /\ \A s, t \in DOMAIN hResult :
              Decode(s, hAlphabet) = Decode(t, hAlphabet) => s = t
        /\ (Len(hChildren) = 3 /\ hAlphabet = <<"a", "b">>) =>
              hResult = [l \in {<<"a", "a">>, <<"a", "b">>, <<"b", "a">>} |->
                           IF l = <<"a", "a">> THEN hChildren[1]
                           ELSE IF l = <<"a", "b">> THEN hChildren[2]
                           ELSE hChildren[3]]

C4_Witness ==
    /\ HintsReturned
    /\ hAlphabet = <<"a", "b">>
    /\ Len(hChildren) = 3
    /\ hChildren[1] # hChildren[2]
    /\ DOMAIN hResult = {<<"a", "a">>, <<"a", "b">>, <<"b", "a">>}

\* C5: with an empty target list or an empty alphabet generate_hints returns
\* the empty map at once and raises no error.
C5_EmptyInputsGiveEmptyMap ==
    (hChildren = <<>> \/ hAlphabet = <<>>) =>
        /\ hPc \in {"start", "done"}
        /\ hResult = EmptyMap

C5_Witness ==
    /\ HintsReturned
    /\ hAlphabet = <<>>
    /\ hChildren # <<>>
    /\ hResult = EmptyMap



(***************************************************************************)
(* The accessibility tree as the service reports it during one run.        *)
(***************************************************************************)
\* atspi_backend.rs: const MAX_DEPTH: usize = 50
MAX_DEPTH == 50

\* "/org/a11y/atspi/accessible/root" and "/org/a11y/atspi/null"
RootPath == 0
NullPath == -1

\* Paths of the modelled trees: long enough for a chain deeper than MAX_DEPTH.
LastPath == MAX_DEPTH + 1
Paths == RootPath..LastPath

\* Option<T> and Result<T, _>: None / Err is <<>>, Some(v) / Ok(v) is <<v>>.
None == <<>>
Some(v) == <<v>>
IsSome(o) == o # <<>>

Range(f) == {f[i] : i \in DOMAIN f}

(***************************************************************************)
(* walk_iterative (src/src/backends/atspi_backend.rs)                      *)
(***************************************************************************)
RetainAll(level, seen) == level

\* line 267: current_level.retain(|p| visited.insert(p.clone())): keeps, in
\* order, the first occurrence of every path that was not visited before.
RECURSIVE Retain(_, _)
Retain(level, seen) ==
    IF level = <<>> THEN <<>>
    ELSE IF Head(level) \in seen THEN Retain(Tail(level), seen)
    ELSE <<Head(level)>> \o Retain(Tail(level), seen \cup {Head(level)})

PositiveWidthOnly(r) == r.width > 0

\* line 297: w > 0 && h > 0
PositiveExtents(r) == r.width > 0 /\ r.height > 0

\* lines 273-306: the future of one path: (result_child, result_children).
\* A failed get_children leaves result_children empty, a failed get_extents
\* (or a node without the Component interface) leaves result_child None.
QueryNode(path, kids, ext) ==
    IF path = NullPath
    THEN [child |-> None, children |-> <<>>]
    ELSE [child    |-> IF IsSome(ext[path]) /\ PositiveExtents(ext[path][1])
                       THEN ext[path] ELSE None,
          children |-> IF IsSome(kids[path]) THEN kids[path][1] ELSE <<>>]

InsideFocusStrict(r, focus) ==
    \/ focus = None
    \/ /\ r.absolute_x >= focus[1].absolute_x
       /\ r.absolute_y >= focus[1].absolute_y
       /\ r.absolute_x + r.width < focus[1].absolute_x + focus[1].width
       /\ r.absolute_y + r.height < focus[1].absolute_y + focus[1].height

\* lines 314-316: inside_focus
InsideFocus(r, focus) ==
    \/ focus = None
    \/ /\ r.absolute_x >= focus[1].absolute_x
       /\ r.absolute_y >= focus[1].absolute_y
       /\ r.absolute_x + r.width <= focus[1].absolute_x + focus[1].width
       /\ r.absolute_y + r.height <= focus[1].absolute_y + focus[1].height

\* lines 312-327: the pushes to `out` of one level, in the level's order.
RECURSIVE LevelTargets(_, _, _, _)
LevelTargets(level, kids, ext, focus) ==
    IF level = <<>> THEN <<>>
    ELSE LET res == QueryNode(Head(level), kids, ext)
         IN  (IF IsSome(res.child) /\ InsideFocus(res.child[1], focus)
              THEN <<res.child[1]>> ELSE <<>>)
             \o LevelTargets(Tail(level), kids, ext, focus)

\* line 326: current_level.extend(children_paths), in the level's order.
RECURSIVE LevelChildren(_, _, _)
LevelChildren(level, kids, ext) ==
    IF level = <<>> THEN <<>>
    ELSE QueryNode(Head(level), kids, ext).children
         \o LevelChildren(Tail(level), kids, ext)

LoopGuardNoDepth(level, d) == level # <<>>

LoopGuardInclusive(level, d) == level # <<>> /\ d <= MAX_DEPTH

\* line 263: while !current_level.is_empty() && depth < MAX_DEPTH
LoopGuard(level, d) == level # <<>> /\ d < MAX_DEPTH

\* lines 264-327: one iteration of the while loop on the walk's state
\* [level, visited, depth, out]; `brk` is the break of line 269.
WalkBody(st, kids, ext, focus) ==
    LET retained == Retain(st.level, st.visited)
    IN  [level   |-> IF retained = <<>> THEN <<>>
                     ELSE LevelChildren(retained, kids, ext),
         visited |-> st.visited \cup Range(retained),
         depth   |-> st.depth + 1,
         out     |-> st.out \o LevelTargets(retained, kids, ext, focus),
         brk     |-> retained = <<>>]

\* lines 283-284: the queries of a path are issued on its built proxy; when
\* the proxy cannot be built, get_children and get_extents give nothing.
Built(answers) ==
    [p \in DOMAIN answers |-> IF accBuild[p] THEN answers[p] ELSE None]

\* The locals of the running walk_iterative as one record.
walkState == [level |-> current_level, visited |-> visited, depth |-> depth,
              out |-> wOut, brk |-> FALSE]

\* One iteration of the while loop.
WalkIter ==
    /\ wPc = "loop"
    /\ LoopGuard(current_level, depth)
    /\ LET st == WalkBody(walkState, Built(accKids), Built(accExt), wFocus)
       IN  /\ current_level' = st.level
           /\ visited' = st.visited
           /\ UNCHANGED results
           /\ depth' = st.depth
           /\ wOut' = st.out
           /\ wPc' = IF st.brk THEN "done" ELSE "loop"
    /\ UNCHANGED <<hvars, envvars, ovars, ipcvars, avars, rvars, cvvars, wFocus>>

\* The loop condition fails: Ok(()) is returned.
WalkExit ==
    /\ wPc = "loop"
    /\ ~LoopGuard(current_level, depth)
    /\ wPc' = "done"
    /\ UNCHANGED <<hvars, envvars, ovars, ipcvars, avars, rvars, cvvars, current_level, visited, results, depth, wOut, wFocus>>


(***************************************************************************)
(* Geometry provider (src/src/window_system.rs): the answers of the        *)
(* external queries, drawn anew at every call.                             *)
(***************************************************************************)
\* get_active_window_geometry_x11: Some only with w > 0 and h > 0.
X11Geoms == {None, Some(Rect(0, 0, 60, 60))}

\* get_active_window_geometry_wayland (hyprctl / swaymsg).
WaylandGeoms == {None, Some(Rect(0, 0, 55, 55))}

\* A geometry query that was made, and what it returned.
Query(query, answer) == [query |-> query, answer |-> answer]

FallbackQueriesX11First(ws, wayland, x11) ==
    IF ws = "wayland"
    THEN <<Query("x11", x11)>>
         \o (IF x11 = None THEN <<Query("wayland", wayland)>> ELSE <<>>)
    ELSE <<Query("x11", x11)>>

\* wayland().or_else(x11) on Wayland, x11() otherwise
\* (atspi_backend.rs 55-63, opencv_backend.rs 207-215): the queries made, in
\* call order; or_else calls x11 only when wayland returned None.
FallbackQueries(ws, wayland, x11) ==
    IF ws = "wayland"
    THEN <<Query("wayland", wayland)>>
         \o (IF wayland = None THEN <<Query("x11", x11)>> ELSE <<>>)
    ELSE <<Query("x11", x11)>>

\* fallback_extents: the answer of the last query made.
ActiveWindowGeometry(ws, wayland, x11) ==
    FallbackQueries(ws, wayland, x11)[Len(FallbackQueries(ws, wayland, x11))].answer

(***************************************************************************)
(* OpenCvBackend::get_children (src/src/backends/opencv_backend.rs)        *)
(***************************************************************************)
\* line 194: rect.width < 5 || rect.height < 5
CvTiny(r) == r.width < 5 \/ r.height < 5

\* lines 190-203: the children pushed for the contours' bounding rects.
CvCollectChildren(rects) == SelectSeq(rects, LAMBDA r : ~CvTiny(r))

\* lines 221-224: the closure of children.retain
CvInside(c, f) ==
    /\ c.absolute_x >= f.absolute_x
    /\ c.absolute_y >= f.absolute_y
    /\ c.absolute_x + c.width <= f.absolute_x + f.width
    /\ c.absolute_y + c.height <= f.absolute_y + f.height

\* lines 217-226: focus_extents and the retained children for `extents`.
CvRetain(cs, extents) ==
    IF IsSome(extents)
    THEN SelectSeq(cs, LAMBDA c : CvInside(c, extents[1]))
    ELSE cs

\* lines 190-203
CvContours ==
    /\ cvPc = "contours"
    /\ cvChildren' = CvCollectChildren(cvRects)
    /\ cvPc' = "scope"
    /\ UNCHANGED <<hvars, envvars, ovars, ipcvars, avars, rvars, wvars, cvRects, cvFocus>>

\* lines 205-227
CvScope ==
    /\ cvPc = "scope"
    /\ IF overlay_target = "window"
       THEN \E wayland \in WaylandGeoms, x11 \in X11Geoms :
              LET extents == ActiveWindowGeometry(window_system_type, wayland, x11)
              IN  /\ cvFocus' = extents
                  /\ cvChildren' = CvRetain(cvChildren, extents)
       ELSE UNCHANGED <<cvFocus, cvChildren>>
    /\ cvPc' = "return"
    /\ UNCHANGED <<hvars, envvars, ovars, ipcvars, avars, rvars, wvars, cvRects>>

\* lines 229-236
CvReturn ==
    /\ cvPc = "return"
    /\ cvPc' = IF cvChildren = <<>> THEN "err" ELSE "ok"
    /\ UNCHANGED <<hvars, envvars, ovars, ipcvars, avars, rvars, wvars, cvRects, cvChildren, cvFocus>>

(***************************************************************************)
(* One target enumeration of either backend, on its own.                   *)
(***************************************************************************)
MaxVaried == 2
MaxContours == 2

\* get_children answers: every path outside `edges` is a leaf.
Shape(edges) == [p \in Paths |-> IF p \in DOMAIN edges THEN edges[p] ELSE Some(<<>>)]

TreeShapes ==
    { Shape(0 :> Some(<<1, 2>>) @@ 1 :> Some(<<3>>)),
      Shape(0 :> Some(<<1>>) @@ 1 :> Some(<<1, 2>>) @@ 2 :> Some(<<3>>)),
      Shape(0 :> Some(<<1>>) @@ 1 :> Some(<<2>>) @@ 2 :> Some(<<0, 3>>)),
      Shape(0 :> Some(<<1, 2, 1>>) @@ 1 :> Some(<<3>>) @@ 2 :> Some(<<3>>)),
      Shape(0 :> Some(<<NullPath, 1, 2>>) @@ 1 :> None),
      Shape(0 :> Some(<<1, 3>>) @@ 1 :> Some(<<2>>) @@ 3 :> Some(<<2>>)),
      [p \in Paths |-> IF p < LastPath THEN Some(<<p + 1>>) ELSE Some(<<>>)],
      [p \in Paths |-> IF p < LastPath THEN Some(<<p + 1>>) ELSE Some(<<1>>)] }

\* get_extents answers of the varied paths; <<>> is a failed query.
ExtPool ==
    { None,
      Some(Rect(0, 0, 10, 10)), Some(Rect(50, 50, 10, 10)), Some(Rect(0, 0, 60, 60)),
      Some(Rect(100, 100, 10, 10)),
      Some(Rect(55, 0, 10, 10)), Some(Rect(0, 55, 10, 10)),
      Some(Rect(-5, 0, 10, 10)), Some(Rect(0, -5, 10, 10)),
      Some(Rect(0, 0, 0, 10)), Some(Rect(0, 0, 10, -1)) }

\* Every path past the varied ones reports this rectangle.
DefaultExt == Some(Rect(0, 0, 10, 10))

ExtMaps ==
    { [p \in Paths |-> IF p \in 1..MaxVaried THEN e[p]
                       ELSE IF p = RootPath THEN None ELSE DefaultExt] :
      e \in [1..MaxVaried -> ExtPool] }

FocusPool == {None, Some(Rect(0, 0, 60, 60)), Some(Rect(0, 0, 0, 0))}

CvRectPool ==
    { Rect(0, 0, 10, 10), Rect(50, 50, 10, 10), Rect(100, 100, 10, 10),
      Rect(0, 0, 4, 10), Rect(0, 0, 10, 4), Rect(55, 0, 10, 10) }

EnumInit ==
    /\ NoOverlay
    /\ hChildren = <<>> /\ hAlphabet = <<>> /\ hPc = "idle"
    /\ hIdx = 0 /\ hNeeded = 0 /\ hResult = EmptyMap
    /\ \/ /\ accKids \in TreeShapes
          /\ accExt \in ExtMaps
          /\ wFocus \in FocusPool
          /\ \E start_path \in {RootPath, 1} : current_level = <<start_path>>
          /\ wPc = "loop"
          /\ cvRects = <<>> /\ cvPc = "idle"
          /\ overlay_target = "window" /\ window_system_type = "wayland"
       \/ /\ accKids = <<>> /\ accExt = <<>>
          /\ wFocus = None /\ current_level = <<>> /\ wPc = "idle"
          /\ cvRects \in SeqsUpTo(CvRectPool, MaxContours)
          /\ cvPc = "contours"
          /\ overlay_target \in {"window", "screen"}
          /\ window_system_type \in {"x11", "wayland"}
    /\ visited = {} /\ results = <<>> /\ depth = 0 /\ wOut = <<>>
    /\ cvChildren = <<>> /\ cvFocus = None
    /\ accState = <<>> /\ accRole = <<>> /\ accParent = <<>>
    /\ accBuild = [p \in DOMAIN accKids |-> TRUE]
    /\ alphabet = <<>> /\ enable = <<>>
    /\ NoRun
    /\ NoIpc

EnumNext == WalkIter \/ WalkExit \/ CvContours \/ CvScope \/ CvReturn

SpecEnum == EnumInit /\ [][EnumNext]_vars

\* The walk alone, on every graph shape; the rectangles do not steer it.
WalkInit ==
    /\ NoOverlay
    /\ EnumInit
    /\ wPc = "loop"
    /\ \A p \in 1..MaxVaried : accExt[p] \in {None, DefaultExt}

WalkNext == WalkIter \/ WalkExit

\* The while loop of walk_iterative runs on: every query of a level returns
\* (with a value or an error), so the loop is never stuck in an await.
SpecWalk == WalkInit /\ [][WalkNext]_vars /\ WF_vars(WalkNext)


(***************************************************************************)
(* find_focused_window (src/src/backends/atspi_backend.rs)                 *)
(***************************************************************************)
\* The service's answers as one record.
Acc == [kids |-> accKids, ext |-> accExt, state |-> accState,
        role |-> accRole, parent |-> accParent, build |-> accBuild]

\* AccessibleProxy::builder(bus).path(p)?.build().await is Ok.
BuildAt(acc, p) == p = NullPath \/ acc.build[p]

\* Queries on the null path fail: default state, Role::Invalid, no children.
StateAt(acc, p) == IF p = NullPath THEN "none" ELSE acc.state[p]
WindowishAt(acc, p) == IF p = NullPath THEN FALSE ELSE acc.role[p]
ExtAt(acc, p) == IF p = NullPath THEN None ELSE acc.ext[p]
KidsAt(acc, p) ==
    IF p = NullPath \/ ~IsSome(acc.kids[p]) THEN <<>> ELSE acc.kids[p][1]
ParentAt(acc, p) == IF p = NullPath THEN None ELSE acc.parent[p]

\* lines 177-181, 230-234: the node's extents, (0, 0, 0, 0) when unavailable.
ExtentsOrZero(acc, p) ==
    IF IsSome(ExtAt(acc, p)) THEN ExtAt(acc, p)[1] ELSE Rect(0, 0, 0, 0)

\* lines 118-145: first_window, focused_node and the initial stack: the
\* first child of the root that reports Active, else all children.
FocusStart(acc) ==
    LET children_refs == KidsAt(acc, RootPath)
        active == SelectSeq(children_refs,
                      LAMBDA c : BuildAt(acc, c) /\ StateAt(acc, c) = "active")
    IN  [status |-> "dfs",
         stack |-> IF active # <<>> THEN <<active[1]>> ELSE children_refs,
         first_window |-> None, focused_node |-> None,
         current_path |-> NullPath, found |-> None]

\* lines 147-203: one iteration of `while let Some(path) = stack.pop()`, or
\* the end of the loop (lines 206-207, 246) on an empty stack.
FocusVisit(st, acc) ==
    IF st.stack = <<>>
    THEN IF IsSome(st.focused_node)
         THEN [st EXCEPT !.status = "climb", !.current_path = st.focused_node[1]]
         ELSE [st EXCEPT !.status = "ok", !.found = st.first_window]
    ELSE LET path == st.stack[Len(st.stack)]
             rest == SubSeq(st.stack, 1, Len(st.stack) - 1)
             focused == StateAt(acc, path) \in {"focused", "active"}
             windowish == WindowishAt(acc, path)
         IN  IF ~BuildAt(acc, path)
             THEN [st EXCEPT !.stack = rest]
             ELSE IF focused /\ windowish
             THEN [st EXCEPT !.status = "ok", !.stack = rest,
                             !.found = Some(<<path, ExtentsOrZero(acc, path)>>)]
             ELSE [st EXCEPT
                     !.stack = rest \o KidsAt(acc, path),
                     !.focused_node = IF focused /\ st.focused_node = None
                                      THEN Some(path) ELSE st.focused_node,
                     !.first_window =
                         IF windowish /\ st.first_window = None /\ IsSome(ExtAt(acc, path))
                         THEN Some(<<path, ExtAt(acc, path)[1]>>)
                         ELSE st.first_window]

\* lines 208-243: one iteration of the climb through the parents; the `?` of
\* line 212 returns the proxy build's error from find_focused_window.
FocusClimb(st, acc) ==
    IF ~BuildAt(acc, st.current_path)
    THEN [st EXCEPT !.status = "err"]
    ELSE IF WindowishAt(acc, st.current_path)
    THEN [st EXCEPT !.status = "ok",
                    !.found = Some(<<st.current_path, ExtentsOrZero(acc, st.current_path)>>)]
    ELSE IF IsSome(ParentAt(acc, st.current_path))
         THEN [st EXCEPT !.current_path = ParentAt(acc, st.current_path)[1]]
         ELSE [st EXCEPT !.status = "ok", !.found = st.first_window]

FocusStep(st, acc) ==
    IF st.status = "dfs" THEN FocusVisit(st, acc) ELSE FocusClimb(st, acc)

\* No focus search is running.
FocusIdle ==
    [status |-> "idle", stack |-> <<>>, first_window |-> None,
     focused_node |-> None, current_path |-> NullPath, found |-> None]

(***************************************************************************)
(* AtspiBackend::collect_children (src/src/backends/atspi_backend.rs)      *)
(***************************************************************************)
\* What the history keeps of a finished enumeration.
WalkRecord(start_path, focus) ==
    [start |-> start_path, focus |-> focus, found |-> Len(wOut)]

\* The call of walk_iterative(start_path, &mut out, bus, focus).
CallWalk(start_path, focus) ==
    /\ current_level' = <<start_path>>
    /\ visited' = {}
    /\ results' = <<>>
    /\ depth' = 0
    /\ wFocus' = focus
    /\ wPc' = "loop"

\* lines 32-41: the connection and the root proxy; either can fail.
AtspiConnect ==
    /\ aPc = "connect"
    /\ \E ok \in BOOLEAN : aPc' = IF ok THEN "resolve" ELSE "err"
    /\ UNCHANGED <<hvars, envvars, ovars, ipcvars, wvars, cvvars, rvars, aStart, aFocus, walks, asked, ff>>

\* lines 43-46, 85-93: `out`, `focus_extents`, and either the call of
\* find_focused_window or, for the screen target, the unscoped enumeration.
AtspiBegin ==
    /\ aPc = "resolve"
    /\ IF overlay_target = "window"
       THEN /\ ff' = FocusStart(Acc)
            /\ aPc' = "focus"
            /\ UNCHANGED <<wvars, aStart, aFocus>>
       ELSE /\ aFocus' = None
            /\ aStart' = RootPath
            /\ CallWalk(aStart', aFocus')
            /\ aPc' = "walk"
            /\ UNCHANGED <<wOut, ff>>
    /\ UNCHANGED <<hvars, envvars, ovars, ipcvars, cvvars, rvars, walks, asked>>

\* One iteration of a loop of find_focused_window.
FocusSearch ==
    /\ aPc = "focus"
    /\ ff.status \in {"dfs", "climb"}
    /\ ff' = FocusStep(ff, Acc)
    /\ UNCHANGED <<hvars, envvars, ovars, ipcvars, wvars, cvvars, rvars, aPc, aStart, aFocus, walks, asked>>

\* line 46: the `?` on find_focused_window's result: its error is the
\* error of collect_children.
AtspiFocusFailed ==
    /\ aPc = "focus"
    /\ ff.status = "err"
    /\ aPc' = "err"
    /\ UNCHANGED <<hvars, envvars, ovars, ipcvars, wvars, cvvars, rvars, aStart, aFocus, walks, asked, ff>>

\* lines 46-84: find_focused_window has returned: the enumeration starts at
\* the focused window with its extents, or at the root with the geometry
\* fallback's answer (wayland, then x11, then no FocusRegion).
AtspiResolved ==
    /\ aPc = "focus"
    /\ ff.status = "ok"
    /\ IF IsSome(ff.found)
       THEN /\ aFocus' = Some(ff.found[1][2])
            /\ aStart' = ff.found[1][1]
            /\ UNCHANGED asked
       ELSE /\ \E wayland \in WaylandGeoms, x11 \in X11Geoms :
                 /\ aFocus' = ActiveWindowGeometry(window_system_type, wayland, x11)
                 /\ asked' = FallbackQueries(window_system_type, wayland, x11)
            /\ aStart' = RootPath
    /\ CallWalk(aStart', aFocus')
    /\ aPc' = "walk"
    /\ UNCHANGED <<hvars, envvars, ovars, ipcvars, cvvars, rvars, wOut, walks, ff>>

NeverRetry(out) == FALSE

\* line 95: if out.is_empty()
NeedsRetry(out) == out = <<>>

\* lines 95-104: the first enumeration has returned; the retry from the root
\* with no focus filtering is called when `out` is empty.
AtspiFirstDone ==
    /\ aPc = "walk"
    /\ wPc = "done"
    /\ walks' = Append(walks, WalkRecord(aStart, wFocus))
    /\ UNCHANGED asked
    /\ IF NeedsRetry(wOut)
       THEN /\ CallWalk(RootPath, None)
            /\ aPc' = "retry"
       ELSE /\ aPc' = "return"
            /\ wPc' = "idle"
            /\ UNCHANGED <<current_level, visited, results, depth, wFocus>>
    /\ UNCHANGED <<hvars, envvars, ovars, ipcvars, cvvars, rvars, wOut, aStart, aFocus, ff>>

\* line 103: the retry has returned.
AtspiRetryDone ==
    /\ aPc = "retry"
    /\ wPc = "done"
    /\ walks' = Append(walks, WalkRecord(RootPath, wFocus))
    /\ UNCHANGED asked
    /\ aPc' = "return"
    /\ wPc' = "idle"
    /\ UNCHANGED <<hvars, envvars, ovars, ipcvars, cvvars, rvars, current_level, visited, results, depth,
                   wOut, wFocus, aStart, aFocus, ff>>

\* lines 106-110: Err on an empty `out`, Ok((out, focus_extents)) otherwise.
AtspiReturn ==
    /\ aPc = "return"
    /\ aPc' = IF wOut = <<>> THEN "err" ELSE "ok"
    /\ UNCHANGED <<hvars, envvars, ovars, ipcvars, wvars, cvvars, rvars, aStart, aFocus, walks, asked, ff>>

(***************************************************************************)
(* The top-level run (src/src/bin/hintsx.rs main)                          *)
(***************************************************************************)
\* line 145 of opencv_backend.rs and the image pipeline up to the contours:
\* any step can fail; otherwise the contours have these bounding rects.
RunContours ==
    { <<>>,
      <<Rect(0, 0, 4, 10)>>,
      <<Rect(0, 0, 10, 10), Rect(100, 100, 10, 10)>>,
      <<Rect(50, 50, 10, 10), Rect(0, 0, 10, 4), Rect(55, 0, 10, 10)>> }

CvScreenshot ==
    /\ cvPc = "screenshot"
    /\ \/ /\ cvPc' = "err"
          /\ UNCHANGED cvRects
       \/ /\ cvRects' \in RunContours
          /\ cvPc' = "contours"
    /\ UNCHANGED <<hvars, envvars, ovars, ipcvars, avars, rvars, wvars, cvChildren, cvFocus>>

EnsureAlways(file) == TRUE

\* ipc.rs 77-85 ensure_daemon_running: Ok iff the endpoint path exists.
EnsureDaemonRunning(file) == file # 0

\* hintsx.rs line 35: ensure_daemon_running()?; Config::load and
\* WindowSystem::detect before it cannot fail.
RunEnsure ==
    /\ rPc = "ensure"
    /\ rPc' = IF EnsureDaemonRunning(sockFile) THEN "backends" ELSE "error"
    /\ UNCHANGED <<hvars, envvars, ovars, ipcvars, wvars, cvvars, avars,
                   rIdx, children, focus_extents, backend_used>>

\* lines 43-45: the next backend of build_backends is asked for its children.
RunTryBackend ==
    /\ rPc = "backends"
    /\ rIdx <= Len(enable)
    /\ rPc' = "call"
    /\ IF enable[rIdx] = "atspi"
       THEN /\ aPc' = "connect"
            /\ aStart' = RootPath /\ aFocus' = None /\ walks' = <<>> /\ asked' = <<>>
            /\ ff' = FocusIdle
            /\ wOut' = <<>>
            /\ UNCHANGED <<current_level, visited, results, depth, wFocus, wPc, cvvars>>
       ELSE /\ cvPc' = "screenshot"
            /\ cvRects' = <<>> /\ cvChildren' = <<>> /\ cvFocus' = None
            /\ UNCHANGED <<avars, wvars>>
    /\ UNCHANGED <<hvars, envvars, ovars, ipcvars, rIdx, children, focus_extents, backend_used>>

\* The loop passes over a backend of the list.
SkipBackend(i) == i + 2

\* line 43: the for loop takes the next element of build_backends' list.
NextBackend(i) == i + 1

\* line 46: Ok(result) if !result.children.is_empty()
Succeeded(pc, result) == pc = "ok" /\ result.children # <<>>

\* lines 45-73: the match on the backend's result; a non-empty Ok breaks the
\* loop, everything else goes on with the next backend.
RunBackendResult ==
    /\ rPc = "call"
    /\ LET atspi == enable[rIdx] = "atspi"
           pc == IF atspi THEN aPc ELSE cvPc
           result == [children |-> IF atspi THEN wOut ELSE cvChildren,
                      focus_extents |-> IF atspi THEN aFocus ELSE cvFocus]
       IN  /\ pc \in {"ok", "err"}
           /\ IF Succeeded(pc, result)
              THEN /\ children' = result.children
                   /\ focus_extents' = result.focus_extents
                   /\ backend_used' = enable[rIdx]
                   /\ rPc' = "fallback"
                   /\ UNCHANGED rIdx
              ELSE /\ rIdx' = NextBackend(rIdx)
                   /\ rPc' = "backends"
                   /\ UNCHANGED <<children, focus_extents, backend_used>>
           /\ IF atspi
              THEN aPc' = "idle" /\ UNCHANGED cvPc
              ELSE cvPc' = "idle" /\ UNCHANGED aPc
    /\ UNCHANGED <<hvars, envvars, ovars, ipcvars, wvars, cvRects, cvChildren, cvFocus,
                   aStart, aFocus, walks, asked, ff>>

\* line 74: the list of backends is exhausted.
RunBackendsDone ==
    /\ rPc = "backends"
    /\ rIdx > Len(enable)
    /\ rPc' = "fallback"
    /\ UNCHANGED <<hvars, envvars, ovars, ipcvars, wvars, cvvars, avars,
                   rIdx, children, focus_extents, backend_used>>

\* lines 77-90: the post-backend xdotool geometry fallback.
RunFallback ==
    /\ rPc = "fallback"
    /\ IF focus_extents = None /\ overlay_target = "window"
       THEN \E x11 \in X11Geoms : focus_extents' = x11
       ELSE UNCHANGED focus_extents
    /\ rPc' = "check"
    /\ UNCHANGED <<hvars, envvars, ovars, ipcvars, wvars, cvvars, avars, rIdx, children, backend_used>>

\* The run goes on without children.
NeverEmpty(c) == FALSE

\* line 92: children.is_empty()
NoChildren(c) == c = <<>>

\* lines 92-99: no children is an error; otherwise generate_hints is called.
RunCheck ==
    /\ rPc = "check"
    /\ IF NoChildren(children)
       THEN /\ rPc' = "error"
            /\ UNCHANGED hvars
       ELSE /\ rPc' = "hints"
            /\ hChildren' = children
            /\ hAlphabet' = alphabet
            /\ hPc' = "start"
            /\ hIdx' = 0 /\ hNeeded' = 0 /\ hResult' = EmptyMap
    /\ UNCHANGED <<envvars, ovars, ipcvars, wvars, cvvars, avars, rIdx, children, focus_extents,
                   backend_used>>

\* line 109: launch_overlay(cfg, window_system, focus_extents, hints, ..)
RunLaunch ==
    /\ rPc = "hints"
    /\ hPc = "done"
    /\ rPc' = "overlay"
    /\ oPc' = "shown"
    /\ UNCHANGED <<input, repeat_count, oTimer, oSent, oAwait, oTyped>>
    /\ UNCHANGED <<hvars, envvars, ipcvars, wvars, cvvars, avars, rIdx, children,
                   focus_extents, backend_used>>

\* What a varied path reports: state, window-like role, extents.
Kind(state, role, ext) == [state |-> state, role |-> role, ext |-> ext]

RunKinds ==
    { Kind("none", FALSE, Some(Rect(0, 0, 10, 10))),
      Kind("none", FALSE, Some(Rect(100, 100, 10, 10))),
      Kind("focused", FALSE, Some(Rect(50, 50, 10, 10))),
      Kind("active", TRUE, Some(Rect(0, 0, 60, 60))),
      Kind("focused", TRUE, None),
      Kind("none", TRUE, Some(Rect(0, 0, 60, 60))),
      Kind("none", FALSE, Some(Rect(0, 0, 10, 0))) }

\* The root is the desktop frame; paths past the varied ones are plain widgets.
RootKind == Kind("none", TRUE, None)
DefaultKind == Kind("none", FALSE, DefaultExt)

KindAt(k, p) ==
    IF p \in DOMAIN k THEN k[p] ELSE IF p = RootPath THEN RootKind ELSE DefaultKind

\* parent(): the root hangs off the null path, any other path off the first
\* path that lists it as a child.
ParentOf(kids, p) ==
    LET ps == {q \in Paths : q # p /\ IsSome(kids[q]) /\ p \in Range(kids[q][1])}
    IN  IF p = RootPath \/ ps = {} THEN Some(NullPath)
        ELSE Some(CHOOSE q \in ps : \A r \in ps : q <= r)

\* The trees of the run: the shapes whose paths end at 3.
RunShapes == {t \in TreeShapes : \A p \in Paths : p > 3 => t[p] = Some(<<>>)}

RunAlphabet == <<"a", "b">>

\* Proxy builds of the run: all succeed, or the one of path 1 fails.
RunBuilds == {[p \in Paths |-> TRUE], [p \in Paths |-> p # 1]}

RunInit ==
    /\ NoOverlay
    /\ hChildren = <<>> /\ hAlphabet = <<>> /\ hPc = "idle"
    /\ hIdx = 0 /\ hNeeded = 0 /\ hResult = EmptyMap
    /\ accKids \in RunShapes
    /\ \E k \in [1..MaxVaried -> RunKinds] :
          /\ accExt = [p \in Paths |-> KindAt(k, p).ext]
          /\ accState = [p \in Paths |-> KindAt(k, p).state]
          /\ accRole = [p \in Paths |-> KindAt(k, p).role]
    /\ accParent = [p \in Paths |-> ParentOf(accKids, p)]
    /\ accBuild \in RunBuilds
    /\ overlay_target \in {"window", "screen"}
    /\ window_system_type \in {"x11", "wayland"}
    /\ alphabet = RunAlphabet
    /\ enable \in {<<"atspi">>, <<"atspi", "opencv">>, <<"opencv", "atspi">>, <<"opencv">>}
    /\ current_level = <<>> /\ visited = {} /\ results = <<>> /\ depth = 0
    /\ wOut = <<>> /\ wFocus = None /\ wPc = "idle"
    /\ cvRects = <<>> /\ cvChildren = <<>> /\ cvFocus = None /\ cvPc = "idle"
    /\ aPc = "idle" /\ aStart = RootPath /\ aFocus = None /\ walks = <<>> /\ asked = <<>>
    /\ ff = FocusIdle
    /\ rPc = "ensure" /\ rIdx = 1 /\ children = <<>>
    /\ focus_extents = None /\ backend_used = ""
    /\ \/ NoIpc
       \/ /\ sockFile = 1
          /\ dm = [d \in Daemons |-> IF d = 1 THEN DaemonListening ELSE DaemonOff]
          /\ ServeIdle

RunNext ==
    \/ RunEnsure
    \/ RunTryBackend \/ RunBackendResult \/ RunBackendsDone
    \/ RunFallback \/ RunCheck \/ RunLaunch
    \/ AtspiConnect \/ AtspiBegin \/ FocusSearch \/ AtspiFocusFailed \/ AtspiResolved
    \/ AtspiFirstDone \/ AtspiRetryDone \/ AtspiReturn
    \/ WalkIter \/ WalkExit
    \/ CvScreenshot \/ CvContours \/ CvScope \/ CvReturn
    \/ HintStart \/ HintIter \/ HintReturn

SpecRun == RunInit /\ [][RunNext]_vars

(***************************************************************************)
(* Properties of one target enumeration.                                   *)
(***************************************************************************)
\* The rectangle r = (x, y, w, h) lies fully inside f = (fx, fy, fw, fh).
FullyInside(r, f) ==
    /\ f.absolute_x <= r.absolute_x
    /\ f.absolute_y <= r.absolute_y
    /\ r.absolute_x + r.width <= f.absolute_x + f.width
    /\ r.absolute_y + r.height <= f.absolute_y + f.height

\* The paths whose queries the walk has issued so far.
Queried == visited \ {NullPath}

\* C7: with FocusRegion F a rectangle enters the output only if all four edge
\* inequalities hold; rectangles touching F's edges are kept, rectangles
\* crossing an edge are dropped; without a FocusRegion the filter drops nothing.
C7_OnlyContainedRectsKept ==
    /\ \A i \in DOMAIN wOut :
          IsSome(wFocus) => FullyInside(wOut[i], wFocus[1])
    /\ \A p \in Queried :
          (/\ IsSome(accExt[p])
           /\ accExt[p][1].width > 0 /\ accExt[p][1].height > 0
           /\ IsSome(wFocus) => FullyInside(accExt[p][1], wFocus[1]))
          => accExt[p][1] \in Range(wOut)
    /\ wFocus = Some(Rect(0, 0, 60, 60)) =>
          /\ Rect(100, 100, 10, 10) \notin Range(wOut)
          /\ \A p \in Queried :
                accExt[p] \in {Some(Rect(0, 0, 10, 10)), Some(Rect(50, 50, 10, 10))}
                => accExt[p][1] \in Range(wOut)
    /\ cvPc \in {"return", "ok", "err"} =>
          /\ \A i \in DOMAIN cvChildren :
                IsSome(cvFocus) => FullyInside(cvChildren[i], cvFocus[1])
          /\ cvChildren = SelectSeq(cvRects,
                LAMBDA r : /\ r.width >= 5 /\ r.height >= 5
                           /\ IsSome(cvFocus) => FullyInside(r, cvFocus[1]))

C7_Witness ==
    /\ wPc = "done"
    /\ wFocus = Some(Rect(0, 0, 60, 60))
    /\ Rect(50, 50, 10, 10) \in Range(wOut)
    /\ \E p \in Queried : accExt[p] = Some(Rect(55, 0, 10, 10))

\* C9: the enumeration terminates on every finite graph, cyclic ones
\* included, and never runs more than MAX_DEPTH level iterations.
C9_WalkTerminatesWithinMaxDepth ==
    /\ [](depth <= MAX_DEPTH)
    /\ (wPc = "loop") ~> (wPc = "done")

C9_Witness ==
    /\ wPc = "done"
    /\ \E p \in Queried :
          /\ IsSome(accKids[p])
          /\ \E c \in Range(accKids[p][1]) : c \in Queried /\ c <= p




(***************************************************************************)
(* Properties of a discovery run.                                          *)
(***************************************************************************)
\* C6: whenever the accessibility backend returns a result, and when the
\* top-level run hands (targets, FocusRegion) to the overlay, a set
\* FocusRegion contains every target fully.
C6_TargetsInsideFocusRegion ==
    /\ (aPc = "ok" /\ IsSome(aFocus)) =>
          \A i \in DOMAIN wOut : FullyInside(wOut[i], aFocus[1])
    /\ (rPc = "overlay" /\ IsSome(focus_extents)) =>
          \A i \in DOMAIN children : FullyInside(children[i], focus_extents[1])

\* C8: every target a backend collects or returns, every target of the run
\* and every target of the label map has width > 0 and height > 0.
C8_TargetsHavePositiveSize ==
    /\ \A i \in DOMAIN wOut : wOut[i].width > 0 /\ wOut[i].height > 0
    /\ \A i \in DOMAIN cvChildren : cvChildren[i].width > 0 /\ cvChildren[i].height > 0
    /\ \A i \in DOMAIN children : children[i].width > 0 /\ children[i].height > 0
    /\ \A l \in DOMAIN hResult : hResult[l].width > 0 /\ hResult[l].height > 0

C8_Witness ==
    /\ rPc = "overlay"
    /\ backend_used = "atspi"
    /\ hResult # EmptyMap
    /\ \E p \in Queried : accExt[p] = Some(Rect(0, 0, 10, 0))

\* C10: when the first enumeration of a collect_children call finds nothing,
\* exactly one more enumeration runs, from the root and with no FocusRegion;
\* the call fails exactly when that one finds nothing too, and it never
\* succeeds with an empty target list.
C10_RetryUnscopedThenError ==
    /\ aPc = "ok" => wOut # <<>>
    /\ (aPc \in {"return", "ok", "err"} /\ walks # <<>>) =>
          /\ walks[1].found = 0 =>
                /\ Len(walks) = 2
                /\ walks[2].focus = None
                /\ walks[2].start = RootPath
          /\ walks[1].found > 0 => Len(walks) = 1
    /\ (aPc \in {"ok", "err"} /\ walks # <<>>) =>
          (aPc = "err" <=> walks[1].found = 0 /\ walks[Len(walks)].found = 0)

C10_Witness ==
    /\ aPc = "ok"
    /\ Len(walks) = 2
    /\ walks[1].found = 0
    /\ IsSome(walks[1].focus)
    /\ walks[2].found > 0

\* C11: a failed query on one node (proxy build, get_children, get_state,
\* get_role, get_extents, parent) only removes that node's contribution:
\* find_focused_window never returns an error, and a collect_children call
\* that has started the focus search fails only after its enumerations ran
\* and found nothing.
C11_NodeFailureNeverAborts ==
    /\ ff.status # "err"
    /\ (aPc = "err" /\ ff.status # "idle") => (walks # <<>> /\ wOut = <<>>)

\* C17: when the endpoint path does not exist, the run ends in an error
\* before a backend is asked for children, before hints are generated and
\* before the overlay is launched.
C17_NoEndpointFailsFast ==
    sockFile = 0 =>
        /\ rPc \in {"ensure", "error"}
        /\ rIdx = 1 /\ aPc = "idle" /\ cvPc = "idle" /\ walks = <<>>
        /\ children = <<>> /\ backend_used = ""
        /\ hPc = "idle" /\ hResult = EmptyMap

C17_Witness ==
    /\ sockFile = 0
    /\ rPc = "error"

(***************************************************************************)
(* The command channel's messages (src/src/ipc.rs) and their wire format.  *)
(* bincode::serialize / bincode::deserialize: fixed-width little-endian    *)
(* integers, u32 enum variant index, u64 length before Vec and String      *)
(* contents, one byte per bool; deserialize accepts trailing bytes.        *)
(* A payload is a sequence of bytes 0..255, a String its sequence of       *)
(* (single-byte) characters.                                               *)
(***************************************************************************)
I32_MAX == 2147483647
I32_MIN == -2147483647 - 1

\* ipc.rs 14-36: enum Request, variants in declaration order.
Move(x, y, absolute) == [type |-> "Move", x |-> x, y |-> y, absolute |-> absolute]
Scroll(x, y) == [type |-> "Scroll", x |-> x, y |-> y]
Click(x, y, button, button_states, repeat, absolute) ==
    [type |-> "Click", x |-> x, y |-> y, button |-> button,
     button_states |-> button_states, repeat |-> repeat, absolute |-> absolute]
DoMouseAction(key, mode) == [type |-> "DoMouseAction", key |-> key, mode |-> mode]

\* ipc.rs 38-42: enum Response.
Ok == [type |-> "Ok"]
Error(msg) == [type |-> "Error", msg |-> msg]

\* to_le_bytes of an unsigned value on k bytes (the value modulo 256^k).
RECURSIVE LeBytes(_, _)
LeBytes(n, k) == IF k = 0 THEN <<>> ELSE <<n % 256>> \o LeBytes(n \div 256, k - 1)

\* The bytes of n, most significant first.
RECURSIVE BeBytes(_, _)
BeBytes(n, k) == IF k = 0 THEN <<>> ELSE BeBytes(n \div 256, k - 1) \o <<n % 256>>

\* from_le_bytes of an unsigned value below 2^31.
RECURSIVE FromLe(_)
FromLe(b) == IF b = <<>> THEN 0 ELSE Head(b) + 256 * FromLe(Tail(b))

\* i32 in two's complement, 4 bytes little-endian.
I32Bytes(v) ==
    IF v >= 0 THEN LeBytes(v, 4)
    ELSE [LeBytes(v + I32_MAX + 1, 4) EXCEPT ![4] = @ + 128]

I32Value(b) ==
    IF b[4] >= 128 THEN FromLe([b EXCEPT ![4] = @ - 128]) - I32_MAX - 1
    ELSE FromLe(b)

\* u32: the values of the model stay below 2^31; a larger one is kept as
\* its bytes.
U32Value(b) == IF b[4] >= 128 THEN [bytes |-> b] ELSE FromLe(b)

\* u64 length prefix: a length no payload of the model can hold is -1.
LenValue(b) ==
    IF \E i \in 3..8 : b[i] # 0 THEN -1 ELSE b[1] + 256 * b[2]

BoolByte(v) == IF v THEN <<1>> ELSE <<0>>

RECURSIVE I32SeqBytes(_)
I32SeqBytes(vs) ==
    IF vs = <<>> THEN <<>> ELSE I32Bytes(Head(vs)) \o I32SeqBytes(Tail(vs))

\* MouseMode: Move = 0, Scroll = 1.
ModeIndex(mode) == IF mode = "Move" THEN 0 ELSE 1

\* bincode::serialize(&request)
SerializeRequest(req) ==
    CASE req.type = "Move" ->
           LeBytes(0, 4) \o I32Bytes(req.x) \o I32Bytes(req.y) \o BoolByte(req.absolute)
      [] req.type = "Scroll" ->
           LeBytes(1, 4) \o I32Bytes(req.x) \o I32Bytes(req.y)
      [] req.type = "Click" ->
           LeBytes(2, 4) \o I32Bytes(req.x) \o I32Bytes(req.y)
           \o LeBytes(req.button, 2)
           \o LeBytes(Len(req.button_states), 8) \o I32SeqBytes(req.button_states)
           \o LeBytes(req.repeat, 4) \o BoolByte(req.absolute)
      [] req.type = "DoMouseAction" ->
           LeBytes(3, 4) \o LeBytes(Len(req.key), 8) \o req.key
           \o LeBytes(ModeIndex(req.mode), 4)

\* bincode::serialize(&resp)
SerializeResponse(resp) ==
    IF resp.type = "Ok" THEN LeBytes(0, 4)
    ELSE LeBytes(1, 4) \o LeBytes(Len(resp.msg), 8) \o resp.msg

\* The bytes lo..hi of buf.
Bytes(buf, lo, hi) == SubSeq(buf, lo, hi)

\* bincode::deserialize::<Request>(&buf): <<req>>, or <<>> on an error
\* (short input, unknown variant, a bool byte other than 0 or 1).
DeserializeRequest(buf) ==
    IF Len(buf) < 4 THEN None
    ELSE LET tag == Bytes(buf, 1, 4) IN
      CASE tag = LeBytes(0, 4) ->
             IF Len(buf) < 13 \/ buf[13] > 1 THEN None
             ELSE Some(Move(I32Value(Bytes(buf, 5, 8)), I32Value(Bytes(buf, 9, 12)),
                            buf[13] = 1))
        [] tag = LeBytes(1, 4) ->
             IF Len(buf) < 12 THEN None
             ELSE Some(Scroll(I32Value(Bytes(buf, 5, 8)), I32Value(Bytes(buf, 9, 12))))
        [] tag = LeBytes(2, 4) ->
             IF Len(buf) < 22 THEN None
             ELSE LET n == LenValue(Bytes(buf, 15, 22))
                      end == 22 + 4 * n
                  IN  IF n < 0 \/ Len(buf) < end + 5 \/ buf[end + 5] > 1 THEN None
                      ELSE Some(Click(
                             I32Value(Bytes(buf, 5, 8)), I32Value(Bytes(buf, 9, 12)),
                             FromLe(Bytes(buf, 13, 14)),
                             [i \in 1..n |-> I32Value(Bytes(buf, 19 + 4 * i, 22 + 4 * i))],
                             U32Value(Bytes(buf, end + 1, end + 4)),
                             buf[end + 5] = 1))
        [] tag = LeBytes(3, 4) ->
             IF Len(buf) < 12 THEN None
             ELSE LET n == LenValue(Bytes(buf, 5, 12))
                      mode == Bytes(buf, 13 + n, 16 + n)
                  IN  IF n < 0 \/ Len(buf) < 16 + n THEN None
                      ELSE IF mode = LeBytes(0, 4)
                           THEN Some(DoMouseAction(Bytes(buf, 13, 12 + n), "Move"))
                      ELSE IF mode = LeBytes(1, 4)
                           THEN Some(DoMouseAction(Bytes(buf, 13, 12 + n), "Scroll"))
                      ELSE None
        [] OTHER -> None

\* bincode::deserialize::<Response>(&buf)
DeserializeResponse(buf) ==
    IF Len(buf) < 4 THEN None
    ELSE IF Bytes(buf, 1, 4) = LeBytes(0, 4) THEN Some(Ok)
    ELSE IF Bytes(buf, 1, 4) = LeBytes(1, 4)
         THEN IF Len(buf) < 12 THEN None
              ELSE LET n == LenValue(Bytes(buf, 5, 12))
                   IN  IF n < 0 \/ Len(buf) < 12 + n THEN None
                       ELSE Some(Error(Bytes(buf, 13, 12 + n)))
    ELSE None

\* The length header in big-endian order.
FrameHeaderBe(payload) == BeBytes(Len(payload), 4)

\* (payload.len() as u32).to_le_bytes()
FrameHeader(payload) == LeBytes(Len(payload), 4)

(***************************************************************************)
(* VirtualMouse (src/src/mouse.rs) and the request dispatch of             *)
(* handle_connection (src/src/bin/hintsd.rs 78-140), one external call or  *)
(* device write per step.                                                  *)
(***************************************************************************)
\* hintsd.rs 114-118: the button of the request.
ButtonOf(button) == IF button = 2 THEN "Right" ELSE IF button = 1 THEN "Middle" ELSE "Left"

\* hintsd.rs 121-130 and mouse.rs 333-336: the value written for a state.
StateValue(b) == IF b = 0 THEN 0 ELSE 1

\* x * self.scale_factor leaves the i32 range (scale factors 1 and 2).
MulOverflows(x, scale) ==
    scale = 2 /\ (x > I32_MAX \div 2 \/ x < -(I32_MAX \div 2) - 1)

\* The wrapping product of a build without overflow checks.
WrappingMul(x, scale) ==
    IF ~MulOverflows(x, scale) THEN x * scale
    ELSE IF x > 0 THEN 2 * (x - (I32_MAX \div 2) - 1) + I32_MIN
    ELSE 2 * (x + (I32_MAX \div 2) + 1) + I32_MAX + 1

\* The error numbers a failed device write comes back with: EBADF, ENODEV.
Errnos == {9, 19}

\* What one step needs of the outside: the exit of hyprctl, of ydotool,
\* whether the device write succeeds, and its error number when it fails.
Outcomes == [hyprctl : BOOLEAN, ydotool : BOOLEAN, emit : BOOLEAN, errno : Errnos]

Sleep(ms) == <<"sleep", ms>>

\* A step's result: the call's next state and the events of the step.
StepTo(m, evs) == [mc |-> m, evs |-> evs]

Return(m, result, evs) ==
    StepTo([m EXCEPT !.pc = "done", !.result = Some(result)], evs)

\* The text of the error of a failed device write, format!("{err}"):
\* "Bad file descriptor (os error 9)", "No such device (os error 19)".
ErrText(errno) ==
    IF errno = 9
    THEN <<66, 97, 100, 32, 102, 105, 108, 101, 32, 100, 101, 115, 99, 114, 105, 112, 116, 111, 114, 32, 40, 111, 115, 32, 101, 114, 114, 111, 114, 32, 57, 41>>
    ELSE <<78, 111, 32, 115, 117, 99, 104, 32, 100, 101, 118, 105, 99, 101, 32, 40, 111, 115, 32, 101, 114, 114, 111, 114, 32, 49, 57, 41>>

\* emit(..)? returns the error of the write: Err(e).
Fail(m, o, evs) ==
    StepTo([m EXCEPT !.pc = "done", !.result = <<"Err", ErrText(o.errno)>>], evs)

\* A Click that goes to its click attempts without the move.
DispatchClickUnmoved(m, req) ==
    CASE req.type = "Move" -> StepTo([m EXCEPT !.pc = "move", !.op = "move"], <<>>)
      [] req.type = "Scroll" -> StepTo([m EXCEPT !.pc = "scroll", !.op = "scroll"], <<>>)
      [] req.type = "Click" ->
           StepTo([m EXCEPT !.pc = "ydotool", !.op = "click"], <<Sleep(500)>>)
      [] req.type = "DoMouseAction" -> Return(m, "Ok", <<>>)

\* hintsd.rs 78-140: the match on the request; Click first sleeps 500 ms.
Dispatch(m, req) ==
    CASE req.type = "Move" -> StepTo([m EXCEPT !.pc = "move", !.op = "move"], <<>>)
      [] req.type = "Scroll" -> StepTo([m EXCEPT !.pc = "scroll", !.op = "scroll"], <<>>)
      [] req.type = "Click" ->
           StepTo([m EXCEPT !.pc = "move", !.op = "click"], <<Sleep(500)>>)
      [] req.type = "DoMouseAction" -> Return(m, "Ok", <<>>)

\* mouse.rs 233-239: click goes on after a successful move with a 100 ms wait.
AfterMove(m, evs) ==
    IF m.op = "click"
    THEN StepTo([m EXCEPT !.pc = "ydotool", !.iteration = 0], evs \o <<Sleep(100)>>)
    ELSE Return(m, "Ok", evs)

\* The absolute device is written whatever the cursor warp returned.
FallbackAlways(o) == TRUE

\* mouse.rs 157-189: hyprctl could not be run or exited non-zero.
WarpFailed(o) == ~o.hyprctl

\* A scroll that writes its components in the other order.
ScrollSwapped(m, req, o) ==
    IF o.emit THEN Return(m, "Ok", << <<"wheel", req.y, req.x>> >>)
    ELSE Fail(m, o, <<>>)

\* mouse.rs 116-123 scroll
ScrollStep(m, req, o) ==
    IF o.emit THEN Return(m, "Ok", << <<"wheel", req.x, req.y>> >>)
    ELSE Fail(m, o, <<>>)

\* mouse.rs 125-209 move: the scaling (a panic under overflow checks), then
\* hyprctl with the absolute device as its fallback, or the relative device.
MoveStep(m, req, scale, checked, o) ==
    IF checked /\ (MulOverflows(req.x, scale) \/ MulOverflows(req.y, scale))
    THEN StepTo([m EXCEPT !.pc = "panic"], <<>>)
    ELSE LET x_scaled == WrappingMul(req.x, scale)
             y_scaled == WrappingMul(req.y, scale)
             hyprctl == <<"hyprctl", x_scaled, y_scaled, o.hyprctl>>
         IN  IF req.absolute
             THEN IF ~WarpFailed(o) THEN AfterMove(m, <<hyprctl, Sleep(50)>>)
                  ELSE IF o.emit
                       THEN AfterMove(m, <<hyprctl, <<"abs", x_scaled, y_scaled>>, Sleep(50)>>)
                       ELSE Fail(m, o, <<hyprctl>>)
             ELSE IF o.emit
                  THEN AfterMove(m, << <<"rel", x_scaled, y_scaled>>, Sleep(30)>>)
                  ELSE Fail(m, o, <<>>)

\* mouse.rs 324: if !ydotool_worked
Fallback(m) == ~m.ydotool_worked

\* mouse.rs 324-368, 377: the loops of the fallback run only with a repeat
\* and a state to send; otherwise the final 200 ms wait is next.
EnterFallback(m, req) ==
    IF Fallback(m) /\ req.repeat > 0 /\ req.button_states # <<>>
    THEN [m EXCEPT !.pc = "uinput", !.iteration = 0, !.state_idx = 0]
    ELSE [m EXCEPT !.pc = "finish"]

\* mouse.rs 274-321: one iteration of the ydotool loop, or its end.
YdotoolStep(m, req, o) ==
    LET button == ButtonOf(req.button) IN
    IF m.iteration >= req.repeat THEN StepTo(EnterFallback(m, req), <<>>)
    ELSE IF o.ydotool
    THEN StepTo([m EXCEPT !.ydotool_worked = TRUE, !.iteration = @ + 1],
                << <<"ydotool", button, TRUE>>, Sleep(100)>>
                \o (IF m.iteration < req.repeat - 1 THEN <<Sleep(50)>> ELSE <<>>))
    ELSE StepTo(EnterFallback(m, req), << <<"ydotool", button, FALSE>> >>)

\* mouse.rs 330-366: one write of the nested fallback loops.
UinputStep(m, req, o) ==
    LET value == StateValue(req.button_states[m.state_idx + 1])
        last_state == m.state_idx + 1 = Len(req.button_states)
        last_iteration == m.iteration + 1 = req.repeat
        evs == << <<"key", ButtonOf(req.button), value>>, Sleep(50)>>
    IN  IF ~o.emit THEN Fail(m, o, <<>>)
        ELSE IF ~last_state THEN StepTo([m EXCEPT !.state_idx = @ + 1], evs)
        ELSE IF ~last_iteration
             THEN StepTo([m EXCEPT !.state_idx = 0, !.iteration = @ + 1], evs)
        ELSE StepTo([m EXCEPT !.pc = "finish"], evs)

\* mouse.rs 375-380
FinishStep(m) == Return(m, "Ok", <<Sleep(200)>>)

\* One step of the request's execution.
MouseStep(m, req, scale, checked, o) ==
    CASE m.pc = "dispatch" -> Dispatch(m, req)
      [] m.pc = "scroll" -> ScrollStep(m, req, o)
      [] m.pc = "move" -> MoveStep(m, req, scale, checked, o)
      [] m.pc = "ydotool" -> YdotoolStep(m, req, o)
      [] m.pc = "uinput" -> UinputStep(m, req, o)
      [] m.pc = "finish" -> FinishStep(m)

(***************************************************************************)
(* hintsd main (src/src/bin/hintsd.rs 12-33): the start of a daemon.       *)
(***************************************************************************)
BindBeforeDevices == <<"check", "display", "bind", "rel", "abs", "listening">>

\* lines 15-35 in program order: the stale-file check, the display and
\* monitor, the two devices of VirtualMouse::new, bind, the accept loop.
StartupOrder == <<"check", "display", "rel", "abs", "bind", "listening">>

\* The step after `pc`.
NextPc(pc) ==
    LET i == CHOOSE j \in DOMAIN StartupOrder : StartupOrder[j] = pc
    IN  StartupOrder[i + 1]

Listening(d) == dm[d].pc = "listening"

\* The process ends with an error (`?` in main, or a panic).
Exit(d, reason) == [dm EXCEPT ![d].pc = "exited", ![d].failed = Some(reason)]

\* A hintsd process is launched.
DaemonStart(d) ==
    /\ dm[d].pc = "off"
    /\ dm' = [dm EXCEPT ![d].pc = "check"]
    /\ UNCHANGED <<hvars, envvars, ovars, wvars, cvvars, avars, rvars, sockFile, servevars>>

\* line 15: Path::new(UNIX_DOMAIN_SOCKET_FILE).exists()
DaemonCheckStale(d) ==
    /\ dm[d].pc = "check"
    /\ dm' = [dm EXCEPT ![d].pc = IF sockFile # 0 THEN "remove" ELSE NextPc("check")]
    /\ UNCHANGED <<hvars, envvars, ovars, wvars, cvvars, avars, rvars, sockFile, servevars>>

\* line 16: fs::remove_file(UNIX_DOMAIN_SOCKET_FILE)?; it fails when the
\* file is gone by now.
DaemonRemoveStale(d) ==
    /\ dm[d].pc = "remove"
    /\ IF sockFile # 0
       THEN /\ sockFile' = 0
            /\ dm' = [dm EXCEPT ![d].pc = NextPc("check")]
       ELSE /\ dm' = Exit(d, "remove_file")
            /\ UNCHANGED sockFile
    /\ UNCHANGED <<hvars, envvars, ovars, wvars, cvvars, avars, rvars, servevars>>

\* lines 19-29: the display and monitor 0; without them the expect panics.
DaemonDisplay(d) ==
    /\ dm[d].pc = "display"
    /\ \E ok \in BOOLEAN :
          dm' = IF ok THEN [dm EXCEPT ![d].pc = NextPc("display")] ELSE Exit(d, "display")
    /\ UNCHANGED <<hvars, envvars, ovars, wvars, cvvars, avars, rvars, sockFile, servevars>>

\* line 31, mouse.rs 59-79 and 82-105: one device of VirtualMouse::new is
\* built, or its error ends main.
DaemonCreateDevice(d) ==
    /\ dm[d].pc \in {"rel", "abs"}
    /\ \E ok \in BOOLEAN :
          dm' = IF ok
                THEN [dm EXCEPT ![d].devices = @ \cup {dm[d].pc},
                                ![d].pc = NextPc(dm[d].pc)]
                ELSE Exit(d, dm[d].pc)
    /\ UNCHANGED <<hvars, envvars, ovars, wvars, cvvars, avars, rvars, sockFile, servevars>>

\* line 32: UnixListener::bind(UNIX_DOMAIN_SOCKET_FILE)?; the address is in
\* use when the path exists.
DaemonBind(d) ==
    /\ dm[d].pc = "bind"
    /\ IF sockFile = 0
       THEN /\ sockFile' = d
            /\ dm' = [dm EXCEPT ![d].pc = NextPc("bind"), ![d].bound = TRUE]
       ELSE /\ dm' = Exit(d, "bind")
            /\ UNCHANGED sockFile
    /\ UNCHANGED <<hvars, envvars, ovars, wvars, cvvars, avars, rvars, servevars>>

\* The process is terminated from outside; main has no cleanup, the
\* endpoint file stays.
DaemonKill(d) ==
    /\ dm[d].pc \notin {"off", "exited"}
    /\ dm' = [dm EXCEPT ![d].pc = "exited"]
    /\ UNCHANGED <<hvars, envvars, ovars, wvars, cvvars, avars, rvars, sockFile, servevars>>

\* Daemons started in any order and at any time, killed at any time.
StartInit ==
    /\ NoOverlay
    /\ NoDiscovery
    /\ NoIpc

StartNext ==
    \E d \in Daemons :
        \/ DaemonStart(d) \/ DaemonCheckStale(d) \/ DaemonRemoveStale(d)
        \/ DaemonDisplay(d) \/ DaemonCreateDevice(d) \/ DaemonBind(d)
        \/ DaemonKill(d)

SpecStart == StartInit /\ [][StartNext]_vars

\* C18: a daemon that has bound the endpoint has created both devices
\* before; a daemon whose device creation failed has exited and has never
\* bound the endpoint nor reached the accept loop.
C18_BindOnlyAfterDevices ==
    \A d \in Daemons :
        /\ dm[d].bound => dm[d].devices = {"rel", "abs"}
        /\ sockFile = d => dm[d].devices = {"rel", "abs"}
        /\ Listening(d) => dm[d].devices = {"rel", "abs"}
        /\ dm[d].failed \in {Some("rel"), Some("abs")} =>
              /\ dm[d].pc = "exited"
              /\ ~dm[d].bound
              /\ sockFile # d

C18_Witness ==
    /\ dm[1].failed = Some("abs")
    /\ dm[1].devices = {"rel"}
    /\ Listening(2)
    /\ sockFile = 2

\* C19: while a daemon that has bound the endpoint is running, the path
\* leads to its listener, and a step removes the endpoint file only when
\* the daemon that created it is no longer running.
C19_EndpointOwnedForLifetime ==
    /\ [](\A d \in Daemons : Listening(d) => sockFile = d)
    /\ [][(sockFile # 0 /\ sockFile' = 0) => dm[sockFile].pc = "exited"]_vars

(***************************************************************************)
(* The accept loop and handle_connection (src/src/bin/hintsd.rs 35-163) of *)
(* the daemon that serves the endpoint.                                    *)
(***************************************************************************)
Server == 1

\* The events of one step, tagged with the stream they were made for.
Logged(c, evs) == devLog \o [i \in 1..Len(evs) |-> [stream |-> c, ev |-> evs[i]]]

\* handle_connection has returned (Ok or Err, line 38-40): the stream is
\* dropped at the end of the loop body and the loop accepts again.
EndConnection(c, connection) ==
    /\ srv' = SrvAccept
    /\ mc' = MouseIdle
    /\ conn' = [connection EXCEPT ![c].daemon_open = FALSE]

\* A connection is accepted while another one is being handled.
AcceptWhileBusy(s) == s.pc # "crashed"

\* lines 35-46: the loop body has returned; the next item of
\* listener.incoming() is taken.
AtAccept(s) == s.pc = "accept"

\* lines 35-37: listener.incoming() yields the next queued connection.
DaemonAccept ==
    /\ Listening(Server)
    /\ AtAccept(srv)
    /\ backlog # <<>>
    /\ srv' = [SrvAccept EXCEPT !.pc = "read_len", !.stream = Head(backlog)]
    /\ backlog' = Tail(backlog)
    /\ accepted' = Append(accepted, Head(backlog))
    /\ UNCHANGED <<hvars, envvars, ovars, wvars, cvvars, avars, rvars, startvars,
                   scale_factor, overflow_checks, mc, devLog, cl, conn>>

\* lines 57-59: read_exact(&mut len_bytes) blocks until 4 bytes are there,
\* and fails when the peer closed before.
DaemonReadLen ==
    /\ Listening(Server)
    /\ srv.pc = "read_len"
    /\ LET c == srv.stream IN
       \/ /\ Len(conn[c].up) >= 4
          /\ srv' = [srv EXCEPT !.pc = "read_payload",
                                !.len = FromLe(SubSeq(conn[c].up, 1, 4))]
          /\ conn' = [conn EXCEPT ![c].up = SubSeq(@, 5, Len(@))]
          /\ UNCHANGED mc
       \/ /\ Len(conn[c].up) < 4
          /\ ~conn[c].client_open
          /\ EndConnection(c, conn)
    /\ UNCHANGED <<hvars, envvars, ovars, wvars, cvvars, avars, rvars, startvars,
                   scale_factor, overflow_checks, backlog, accepted, devLog, cl>>

\* lines 62-63: read_exact(&mut buf) for the announced length.
DaemonReadPayload ==
    /\ Listening(Server)
    /\ srv.pc = "read_payload"
    /\ LET c == srv.stream IN
       \/ /\ Len(conn[c].up) >= srv.len
          /\ srv' = [srv EXCEPT !.pc = "decode", !.buf = SubSeq(conn[c].up, 1, srv.len)]
          /\ conn' = [conn EXCEPT ![c].up = SubSeq(@, srv.len + 1, Len(@))]
          /\ UNCHANGED mc
       \/ /\ Len(conn[c].up) < srv.len
          /\ ~conn[c].client_open
          /\ EndConnection(c, conn)
    /\ UNCHANGED <<hvars, envvars, ovars, wvars, cvvars, avars, rvars, startvars,
                   scale_factor, overflow_checks, backlog, accepted, devLog, cl>>

\* line 66: bincode::deserialize(&buf)?
DaemonDecode ==
    /\ Listening(Server)
    /\ srv.pc = "decode"
    /\ LET c == srv.stream
           req == DeserializeRequest(srv.buf)
       IN  IF IsSome(req)
           THEN /\ srv' = [srv EXCEPT !.pc = "exec", !.req = req]
                /\ mc' = [MouseIdle EXCEPT !.pc = "dispatch"]
                /\ conn' = [conn EXCEPT ![c].decoded = @ + 1]
                /\ devLog' = Logged(c, << <<"request">> >>)
           ELSE /\ EndConnection(c, conn)
                /\ UNCHANGED devLog
    /\ UNCHANGED <<hvars, envvars, ovars, wvars, cvvars, avars, rvars, startvars,
                   scale_factor, overflow_checks, backlog, accepted, cl>>

\* lines 78-140: one step of the request's execution. A panic of the main
\* thread ends the process: its listener and streams are closed.
DaemonExec ==
    /\ Listening(Server)
    /\ srv.pc = "exec"
    /\ mc.pc \notin {"done", "idle"}
    /\ \E o \in Outcomes :
          LET step == MouseStep(mc, srv.req[1], scale_factor, overflow_checks, o)
          IN  IF step.mc.pc = "panic"
              THEN /\ dm' = Exit(Server, "panic")
                   /\ srv' = [srv EXCEPT !.pc = "crashed"]
                   /\ mc' = step.mc
                   /\ backlog' = <<>>
                   /\ conn' = [c \in Clients |-> [conn[c] EXCEPT !.daemon_open = FALSE]]
                   /\ UNCHANGED devLog
              ELSE /\ mc' = step.mc
                   /\ devLog' = Logged(srv.stream, step.evs)
                   /\ UNCHANGED <<dm, srv, backlog, conn>>
    /\ UNCHANGED <<hvars, envvars, ovars, wvars, cvvars, avars, rvars, sockFile,
                   scale_factor, overflow_checks, accepted, cl>>

\* line 150: the text of the error in `result`.
ErrorOf(result) == IF Len(result) = 2 THEN result[2] ELSE <<>>

\* The response is written before the request's execution has returned.
RespondEarly(m) == m.pc # "idle"

\* line 142: `result` is there: the match on the request has returned.
Executed(m) == m.pc = "done"

\* lines 143-157: the response for `result`, and its length header; the
\* write fails when the peer has closed the stream.
DaemonRespond ==
    /\ Listening(Server)
    /\ srv.pc = "exec"
    /\ Executed(mc)
    /\ LET c == srv.stream
           resp == IF mc.result = Some("Ok") THEN Ok ELSE Error(ErrorOf(mc.result))
       IN  IF conn[c].client_open
           THEN /\ srv' = [srv EXCEPT !.pc = "write_payload", !.resp = Some(resp)]
                /\ conn' = [conn EXCEPT ![c].down = @ \o FrameHeader(SerializeResponse(resp))]
                /\ UNCHANGED mc
           ELSE EndConnection(c, conn)
    /\ UNCHANGED <<hvars, envvars, ovars, wvars, cvvars, avars, rvars, startvars,
                   scale_factor, overflow_checks, backlog, accepted, devLog, cl>>

\* lines 158-162: the payload of the response, then Ok(()).
DaemonWritePayload ==
    /\ Listening(Server)
    /\ srv.pc = "write_payload"
    /\ LET c == srv.stream IN
       IF conn[c].client_open
       THEN /\ EndConnection(c, [conn EXCEPT
                   ![c].down = @ \o SerializeResponse(srv.resp[1]),
                   ![c].responses = @ + 1])
            /\ devLog' = Logged(c, << <<"response", srv.resp[1]>> >>)
       ELSE /\ EndConnection(c, conn)
            /\ UNCHANGED devLog
    /\ UNCHANGED <<hvars, envvars, ovars, wvars, cvvars, avars, rvars, startvars,
                   scale_factor, overflow_checks, backlog, accepted, cl>>

(***************************************************************************)
(* ipc::send (src/src/ipc.rs 44-75), and peers that are not this client.   *)
(***************************************************************************)
\* The call returns: Ok(resp) is <<resp>>, an error is <<>>; the stream is
\* dropped.
ClientReturn(c, ret, connection) ==
    /\ cl' = [cl EXCEPT ![c].pc = "returned", ![c].ret = ret]
    /\ conn' = [connection EXCEPT ![c].client_open = FALSE]

\* A failed connection attempt is made again.
RetryConnect == "connect"

\* lines 47-48: the `?` on UnixStream::connect returns the error.
OnConnectError == "returned"

\* UnixStream::connect succeeds when the path leads to a listener.
Connectable(file) == file # 0 /\ Listening(file)

\* lines 47-48: the one connection attempt of the call.
ClientConnect(c) ==
    /\ cl[c].pc = "connect"
    /\ IF Connectable(sockFile)
       THEN /\ cl' = [cl EXCEPT ![c].pc = "write_len", ![c].connects = @ + 1]
            /\ conn' = [conn EXCEPT ![c].client_open = TRUE, ![c].daemon_open = TRUE]
            /\ backlog' = Append(backlog, c)
       ELSE /\ cl' = [cl EXCEPT ![c].pc = OnConnectError, ![c].connects = @ + 1]
            /\ UNCHANGED <<conn, backlog>>
    /\ UNCHANGED <<hvars, envvars, ovars, wvars, cvvars, avars, rvars, startvars,
                   scale_factor, overflow_checks, accepted, srv, mc, devLog>>

\* lines 52-56: the payload and its length header; a write on a stream the
\* daemon has closed fails.
ClientWriteLen(c) ==
    /\ cl[c].pc = "write_len"
    /\ cl[c].kind = "send"
    /\ IF conn[c].daemon_open
       THEN /\ cl' = [cl EXCEPT ![c].pc = "write_payload"]
            /\ conn' = [conn EXCEPT
                  ![c].up = @ \o FrameHeader(SerializeRequest(cl[c].request[1]))]
       ELSE ClientReturn(c, None, conn)
    /\ UNCHANGED <<hvars, envvars, ovars, wvars, cvvars, avars, rvars, startvars,
                   scale_factor, overflow_checks, backlog, accepted, srv, mc, devLog>>

\* lines 58-59: the payload and the flush.
ClientWritePayload(c) ==
    /\ cl[c].pc = "write_payload"
    /\ IF conn[c].daemon_open
       THEN /\ cl' = [cl EXCEPT ![c].pc = "read_len", ![c].frames = @ + 1]
            /\ conn' = [conn EXCEPT ![c].up = @ \o SerializeRequest(cl[c].request[1])]
       ELSE ClientReturn(c, None, conn)
    /\ UNCHANGED <<hvars, envvars, ovars, wvars, cvvars, avars, rvars, startvars,
                   scale_factor, overflow_checks, backlog, accepted, srv, mc, devLog>>

\* lines 62-64: read_exact(&mut len_bytes) blocks until the header is
\* there, and fails when the daemon closed the stream without it.
ClientReadLen(c) ==
    /\ cl[c].pc = "read_len"
    /\ \/ /\ Len(conn[c].down) >= 4
          /\ cl' = [cl EXCEPT ![c].pc = "read_payload",
                              ![c].len = FromLe(SubSeq(conn[c].down, 1, 4))]
          /\ conn' = [conn EXCEPT ![c].down = SubSeq(@, 5, Len(@))]
       \/ /\ Len(conn[c].down) < 4
          /\ ~conn[c].daemon_open
          /\ ClientReturn(c, None, conn)
    /\ UNCHANGED <<hvars, envvars, ovars, wvars, cvvars, avars, rvars, startvars,
                   scale_factor, overflow_checks, backlog, accepted, srv, mc, devLog>>

\* lines 67-68: read_exact(&mut buf)
ClientReadPayload(c) ==
    /\ cl[c].pc = "read_payload"
    /\ \/ /\ Len(conn[c].down) >= cl[c].len
          /\ cl' = [cl EXCEPT ![c].pc = "decode",
                              ![c].buf = SubSeq(conn[c].down, 1, cl[c].len)]
          /\ conn' = [conn EXCEPT ![c].down = SubSeq(@, cl[c].len + 1, Len(@))]
       \/ /\ Len(conn[c].down) < cl[c].len
          /\ ~conn[c].daemon_open
          /\ ClientReturn(c, None, conn)
    /\ UNCHANGED <<hvars, envvars, ovars, wvars, cvvars, avars, rvars, startvars,
                   scale_factor, overflow_checks, backlog, accepted, srv, mc, devLog>>

\* lines 71-74: bincode::deserialize(&buf)?, then Ok(resp).
ClientDecode(c) ==
    /\ cl[c].pc = "decode"
    /\ ClientReturn(c, DeserializeResponse(cl[c].buf), conn)
    /\ UNCHANGED <<hvars, envvars, ovars, wvars, cvvars, avars, rvars, startvars,
                   scale_factor, overflow_checks, backlog, accepted, srv, mc, devLog>>

\* A peer that is not ipc::send writes the bytes it likes.
PeerWrite(c) ==
    /\ cl[c].pc = "write_len"
    /\ cl[c].kind = "peer"
    /\ conn[c].daemon_open
    /\ cl' = [cl EXCEPT ![c].pc = "peer_sent"]
    /\ conn' = [conn EXCEPT ![c].up = @ \o cl[c].raw]
    /\ UNCHANGED <<hvars, envvars, ovars, wvars, cvvars, avars, rvars, startvars,
                   scale_factor, overflow_checks, backlog, accepted, srv, mc, devLog>>

\* The process at the client end goes away: a peer closes its stream after
\* its write, a client is terminated while it waits for the response.
ClientGone(c) ==
    /\ cl[c].pc \in {"read_len", "peer_sent"}
    /\ cl' = [cl EXCEPT ![c].pc = "gone"]
    /\ conn' = [conn EXCEPT ![c].client_open = FALSE]
    /\ UNCHANGED <<hvars, envvars, ovars, wvars, cvvars, avars, rvars, startvars,
                   scale_factor, overflow_checks, backlog, accepted, srv, mc, devLog>>

(***************************************************************************)
(* One daemon and the processes that connect to its endpoint.              *)
(***************************************************************************)
\* The requests of the clients: a pointer move, a move whose scaled x leaves
\* the i32 range at scale factor 2, a double click, a scroll.
ServePool ==
    { Move(100, 200, TRUE),
      Move(1073741824, 0, FALSE),
      Click(100, 200, 0, <<1, 0>>, 2, TRUE),
      Scroll(0, -1) }

\* The requests of the second client.
SecondPool == {Move(100, 200, TRUE), Scroll(0, -1)}

\* What a foreign peer writes: nothing, half a header, a frame whose payload names
\* no Request variant, a header announcing more than follows.
PeerFrames ==
    { <<>>, <<5, 0>>,
      <<4, 0, 0, 0, 9, 0, 0, 0>>,
      <<8, 0, 0, 0, 1, 0, 0, 0>> }

\* Monitor scale factor and build profile of the daemon; without scaling
\* the overflow checks make no difference.
Builds == {<<1, FALSE>>, <<2, FALSE>>, <<2, TRUE>>}

\* A process about to call send(request).
ClientOf(request) == [ClientOff EXCEPT !.pc = "connect", !.request = Some(request)]

\* A foreign process about to connect and write `raw`.
PeerOf(raw) == [ClientOff EXCEPT !.pc = "connect", !.kind = "peer", !.raw = raw]

ServeInit ==
    /\ NoOverlay
    /\ NoDiscovery
    /\ \/ /\ sockFile = 1
          /\ dm = [d \in Daemons |-> IF d = Server THEN DaemonListening ELSE DaemonOff]
       \/ /\ sockFile = 1
          /\ dm = [d \in Daemons |->
                     IF d = Server THEN [DaemonListening EXCEPT !.pc = "exited"]
                     ELSE DaemonOff]
       \/ /\ sockFile = 0
          /\ dm = [d \in Daemons |-> DaemonOff]
    /\ \E build \in Builds :
          scale_factor = build[1] /\ overflow_checks = build[2]
    /\ backlog = <<>> /\ accepted = <<>>
    /\ srv = SrvAccept /\ mc = MouseIdle /\ devLog = <<>>
    /\ \E first \in ServePool, second \in SecondPool \cup PeerFrames :
          cl = [c \in Clients |->
                  IF c = 1 THEN ClientOf(first)
                  ELSE IF c > 2 THEN ClientOf(Scroll(0, -1))
                  ELSE IF second \in SecondPool THEN ClientOf(second)
                  ELSE PeerOf(second)]
    /\ conn = [c \in Clients |-> ConnNone]

ServeNext ==
    \/ DaemonAccept \/ DaemonReadLen \/ DaemonReadPayload \/ DaemonDecode
    \/ DaemonExec \/ DaemonRespond \/ DaemonWritePayload
    \/ \E c \in Clients :
          \/ ClientConnect(c) \/ ClientWriteLen(c) \/ ClientWritePayload(c)
          \/ ClientReadLen(c) \/ ClientReadPayload(c) \/ ClientDecode(c)
          \/ PeerWrite(c) \/ ClientGone(c)

SpecServe == ServeInit /\ [][ServeNext]_vars

(***************************************************************************)
(* Properties of the command channel.                                      *)
(***************************************************************************)
\* The daemon is done with the stream of client c.
Handled(c) == c \in Range(accepted) /\ srv.stream # c

\* The events logged for the stream of client c.
LogOf(c) == SelectSeq(devLog, LAMBDA e : e.stream = c)

AcceptIndex(c) == CHOOSE i \in DOMAIN accepted : accepted[i] = c

\* C13: the events of the log (requests read, device events, external
\* calls, sleeps, responses) come in one block per connection, the blocks in
\* accept order, and when anything is logged for a connection the streams
\* of all connections accepted before it are already dropped.
C13_RequestsNeverInterleave ==
    /\ \A i, j \in DOMAIN devLog :
          i < j => AcceptIndex(devLog[i].stream) <= AcceptIndex(devLog[j].stream)
    /\ \A i \in DOMAIN devLog : \A c \in Clients :
          (c \in Range(accepted) /\ AcceptIndex(c) < AcceptIndex(devLog[i].stream))
          => ~conn[c].daemon_open

C13_Witness ==
    /\ accepted = <<2, 1>>
    /\ srv.stream = 1 /\ mc.pc = "uinput"
    /\ cl[1].request = Some(Click(100, 200, 0, <<1, 0>>, 2, TRUE))
    /\ cl[1].pc = "read_len" /\ cl[2].pc = "returned"
    /\ \E i \in DOMAIN devLog : devLog[i].stream = 2 /\ devLog[i].ev[1] = "abs"
    /\ \E i \in DOMAIN devLog : devLog[i].stream = 1 /\ devLog[i].ev[1] = "ydotool"

\* C14: no step of a connection takes the daemon out of its accept loop or
\* changes its devices; every handled connection leaves it accepting; a
\* request whose execution failed is answered with an Error response.
C14_DaemonSurvivesEveryOutcome ==
    /\ [][Listening(Server) =>
            /\ Listening(Server)'
            /\ dm'[Server].devices = dm[Server].devices
            /\ srv'.pc # "crashed"]_vars
    /\ []((srv.pc = "write_payload" /\ mc.result # Some("Ok")) =>
            \E e \in Errnos : srv.resp = Some(Error(ErrText(e))))

\* C16: one call of send makes at most one connection attempt and writes at
\* most one frame; it never goes back to connecting; a call that returns
\* without a response of the daemon returns an error; no client step starts
\* a daemon.
C16_SendFailsWithoutRetry ==
    /\ [](\A c \in Clients :
            cl[c].kind = "send" =>
              /\ cl[c].connects <= 1 /\ cl[c].frames <= 1
              /\ cl[c].pc = "connect" => cl[c].connects = 0
              /\ (cl[c].pc = "returned" /\ conn[c].responses = 0) => cl[c].ret = None
              /\ (cl[c].connects = 1 /\ ~Connectable(sockFile) /\ ~dm[Server].bound)
                    => (cl[c].pc = "returned" /\ cl[c].frames = 0))
    /\ [][\A d \in Daemons : dm[d].pc = "off" => dm'[d].pc = "off"]_vars

C16_Witness ==
    /\ cl[1].kind = "send" /\ cl[1].pc = "returned" /\ cl[1].ret = None
    /\ cl[1].connects = 1 /\ cl[1].frames = 1
    /\ cl[2].kind = "send" /\ cl[2].pc = "returned" /\ cl[2].ret = None
    /\ cl[2].connects = 1 /\ cl[2].frames = 0

\* The values written for `states`, `repeat` times over.
RECURSIVE Repeated(_, _)
Repeated(states, repeat) ==
    IF repeat = 0 THEN <<>> ELSE states \o Repeated(states, repeat - 1)

\* C20: when a Click has returned Ok and one of its ydotool attempts had
\* failed (or could not be run), no attempt was made after the failed one
\* and the relative device got the requested states as button events, once
\* per repeat.
C20_AnyFailedAttemptFallsBack ==
    (srv.pc = "exec" /\ mc.pc = "done" /\ mc.op = "click" /\ mc.result = Some("Ok")) =>
        LET req == srv.req[1]
            log == LogOf(srv.stream)
            attempts == SelectSeq(log, LAMBDA e : e.ev[1] = "ydotool")
            keys == SelectSeq(log, LAMBDA e : e.ev[1] = "key")
        IN  (\E i \in DOMAIN attempts : ~attempts[i].ev[3]) =>
                /\ \A i \in DOMAIN attempts : ~attempts[i].ev[3] => i = Len(attempts)
                /\ [i \in DOMAIN keys |-> keys[i].ev[3]]
                     = Repeated([k \in DOMAIN req.button_states |->
                                    StateValue(req.button_states[k])], req.repeat)

(***************************************************************************)
(* One call of send against a listening daemon, for the requests of every  *)
(* variant: what is written at one end is what is decoded at the other.    *)
(***************************************************************************)
\* Requests of each variant with the extremes of their fields, the Click of
\* the round-trip example among them.
CodecPool ==
    { Move(I32_MIN, I32_MAX, FALSE),
      Move(-1, 256, TRUE),
      Scroll(0, -1),
      Scroll(65536, -65536),
      Click(100, 200, 0, <<1, 0>>, 2, TRUE),
      Click(0, 0, 65535, <<>>, 0, FALSE),
      Click(-5, 7, 2, <<-1, I32_MAX, 0>>, 1, FALSE),
      DoMouseAction(<<>>, "Move"),
      DoMouseAction(<<104, 106>>, "Scroll") }

CodecInit ==
    /\ NoOverlay
    /\ NoDiscovery
    /\ sockFile = Server
    /\ dm = [d \in Daemons |-> IF d = Server THEN DaemonListening ELSE DaemonOff]
    /\ scale_factor = 1 /\ overflow_checks = FALSE
    /\ backlog = <<>> /\ accepted = <<>>
    /\ srv = SrvAccept /\ mc = MouseIdle /\ devLog = <<>>
    /\ \E request \in CodecPool :
          cl = [c \in Clients |-> IF c = 1 THEN ClientOf(request) ELSE ClientOff]
    /\ conn = [c \in Clients |-> ConnNone]

CodecNext ==
    \/ DaemonAccept \/ DaemonReadLen \/ DaemonReadPayload \/ DaemonDecode
    \/ DaemonExec \/ DaemonRespond \/ DaemonWritePayload
    \/ ClientConnect(1) \/ ClientWriteLen(1) \/ ClientWritePayload(1)
    \/ ClientReadLen(1) \/ ClientReadPayload(1) \/ ClientDecode(1)

SpecCodec == CodecInit /\ [][CodecNext]_vars

\* The responses the daemon has written to client c.
ResponsesTo(c) == SelectSeq(LogOf(c), LAMBDA e : e.ev[1] = "response")

\* C15: the length the daemon reads from the header is the length of the
\* request's payload and the request it decodes is the request the client
\* sent; the length the client reads is the length of the response's
\* payload and the response it returns is the response the daemon wrote.
C15_FramesRoundTrip ==
    \A c \in Clients :
       /\ (srv.stream = c /\ srv.pc \in {"read_payload", "decode"}) =>
              srv.len = Len(SerializeRequest(cl[c].request[1]))
       /\ (srv.stream = c /\ srv.pc = "decode") =>
              srv.buf = SerializeRequest(cl[c].request[1])
       /\ (srv.stream = c /\ srv.pc \in {"exec", "write_payload"}) =>
              srv.req = cl[c].request
       /\ (c \in Range(accepted) /\ srv.stream # c) => conn[c].decoded = 1
       /\ cl[c].pc \in {"read_payload", "decode"} =>
              /\ IsSome(srv.resp) \/ ResponsesTo(c) # <<>>
              /\ LET resp == IF ResponsesTo(c) # <<>> THEN ResponsesTo(c)[1].ev[2]
                              ELSE srv.resp[1]
                 IN  cl[c].len = Len(SerializeResponse(resp))
       /\ cl[c].pc = "returned" =>
              /\ Len(ResponsesTo(c)) = 1
              /\ cl[c].ret = Some(ResponsesTo(c)[1].ev[2])

\* The example Click was decoded by the daemon and its response returned.
C15_Witness ==
    /\ cl[1].request = Some(Click(100, 200, 0, <<1, 0>>, 2, TRUE))
    /\ conn[1].decoded = 1
    /\ cl[1].pc = "returned"
    /\ cl[1].ret = Some(Error(ErrText(19)))

(***************************************************************************)
(* One request of each kind against a listening daemon: what the devices   *)
(* and the external commands get to see.                                   *)
(***************************************************************************)
\* Moves, scrolls and clicks in both positioning modes, the press-only click
\* of the overlay's drag, clicks with no state and with no repeat.
MousePool ==
    { Move(100, 200, TRUE),
      Move(-3, 4, FALSE),
      Scroll(0, -5),
      Scroll(2, 0),
      Click(100, 200, 0, <<1, 0>>, 2, TRUE),
      Click(0, 0, 0, <<1>>, 1, FALSE),
      Click(7, 7, 1, <<>>, 1, TRUE),
      Click(5, 5, 0, <<1, 0>>, 0, FALSE) }

MouseInit ==
    /\ NoOverlay
    /\ NoDiscovery
    /\ sockFile = Server
    /\ dm = [d \in Daemons |-> IF d = Server THEN DaemonListening ELSE DaemonOff]
    /\ scale_factor \in {1, 2} /\ overflow_checks \in BOOLEAN
    /\ backlog = <<>> /\ accepted = <<>>
    /\ srv = SrvAccept /\ mc = MouseIdle /\ devLog = <<>>
    /\ \E request \in MousePool :
          cl = [c \in Clients |-> IF c = 1 THEN ClientOf(request) ELSE ClientOff]
    /\ conn = [c \in Clients |-> ConnNone]

SpecMouse == MouseInit /\ [][CodecNext]_vars

\* The request in execution and what was logged for it so far.
CurrentRequest == srv.req[1]
CurrentLog == LogOf(srv.stream)
Executing == srv.pc \in {"exec", "write_payload"} /\ mc.pc # "panic"

\* The move of the request has completed within the first k entries of the
\* log: the cursor warp succeeded, or it failed and the absolute device took
\* the scaled position, or the relative device took the scaled offset.
MoveCompleted(log, k, req) ==
    LET xs == WrappingMul(req.x, scale_factor)
        ys == WrappingMul(req.y, scale_factor)
    IN  IF req.absolute
        THEN \E i \in 1..k :
                \/ log[i].ev = <<"hyprctl", xs, ys, TRUE>>
                \/ /\ log[i].ev = <<"hyprctl", xs, ys, FALSE>>
                   /\ i < k /\ log[i + 1].ev = <<"abs", xs, ys>>
        ELSE \E i \in 1..k : log[i].ev = <<"rel", xs, ys>>

\* C21: in a Click no synthetic-click call and no button event comes before
\* the move to (x, y) in the request's positioning mode has completed and
\* its 100 ms settle wait has passed; a Click whose move did not complete
\* does not return Ok.
C21_ClickMovesFirst ==
    (Executing /\ CurrentRequest.type = "Click") =>
        /\ \A k \in DOMAIN CurrentLog :
              CurrentLog[k].ev[1] \in {"ydotool", "key"} =>
                 /\ MoveCompleted(CurrentLog, k - 1, CurrentRequest)
                 /\ \E i \in 1..(k - 1) : CurrentLog[i].ev = Sleep(100)
        /\ (mc.pc = "done" /\ ~MoveCompleted(CurrentLog, Len(CurrentLog), CurrentRequest)) =>
              /\ mc.result # Some("Ok")
              /\ \A k \in DOMAIN CurrentLog : CurrentLog[k].ev[1] \notin {"ydotool", "key"}

\* A click whose move fell back to the absolute device delivered its button
\* events, and one whose move failed was answered with an error.
C21_Witness ==
    /\ Executing /\ CurrentRequest.type = "Click" /\ mc.pc = "done"
    /\ mc.result = Some("Ok")
    /\ \E i, j \in DOMAIN CurrentLog :
          i < j /\ CurrentLog[i].ev[1] = "abs" /\ CurrentLog[j].ev[1] = "key"

\* What the request made the devices and the external commands do so far.
DeviceEvents ==
    SelectSeq(CurrentLog, LAMBDA e : e.ev[1] \notin {"request", "response", "sleep"})

\* C22: an absolute Move first runs the cursor warp with the scaled position;
\* the absolute device is written only after a failed warp, and a Move that
\* returns Ok has written it exactly when the warp failed; nothing else is
\* written or run. A relative Move writes the scaled offset to the relative
\* device once and runs no command.
C22_MoveEscalation ==
    (Executing /\ CurrentRequest.type = "Move") =>
        LET req == CurrentRequest
            xs == WrappingMul(req.x, scale_factor)
            ys == WrappingMul(req.y, scale_factor)
            evs == [k \in DOMAIN DeviceEvents |-> DeviceEvents[k].ev]
            returnedOk == mc.pc = "done" /\ mc.result = Some("Ok")
        IN  IF req.absolute
            THEN /\ Len(evs) <= 2
                 /\ Len(evs) >= 1 => evs[1] \in {<<"hyprctl", xs, ys, ok>> : ok \in BOOLEAN}
                 /\ Len(evs) = 2 => (evs[1][4] = FALSE /\ evs[2] = <<"abs", xs, ys>>)
                 /\ returnedOk => (Len(evs) >= 1 /\ (Len(evs) = 2 <=> evs[1][4] = FALSE))
            ELSE /\ Len(evs) <= 1
                 /\ Len(evs) = 1 => evs[1] = <<"rel", xs, ys>>
                 /\ returnedOk => Len(evs) = 1

\* An absolute Move went through the absolute device after a failed warp.
C22_Witness ==
    /\ Executing /\ CurrentRequest = Move(100, 200, TRUE)
    /\ mc.pc = "done" /\ mc.result = Some("Ok")
    /\ Len(DeviceEvents) = 2 /\ DeviceEvents[2].ev[1] = "abs"

\* C23: a Scroll{x, y} writes one wheel pair, horizontal x and vertical y, to
\* the relative device and does nothing else: no command, no other event,
\* no wait; one that returned Ok has written exactly that pair.
C23_ScrollOnePair ==
    (Executing /\ CurrentRequest.type = "Scroll") =>
        LET others == SelectSeq(CurrentLog,
                        LAMBDA e : e.ev[1] \notin {"request", "response", "wheel"})
            wheels == SelectSeq(CurrentLog, LAMBDA e : e.ev[1] = "wheel")
        IN  /\ others = <<>>
            /\ Len(wheels) <= 1
            /\ Len(wheels) = 1 => wheels[1].ev = <<"wheel", CurrentRequest.x, CurrentRequest.y>>
            /\ (mc.pc = "done" /\ mc.result = Some("Ok")) => Len(wheels) = 1

\* Scroll{x: 0, y: -5} returned Ok after its wheel pair.
C23_Witness ==
    /\ Executing /\ CurrentRequest = Scroll(0, -5)
    /\ mc.pc = "done" /\ mc.result = Some("Ok")
    /\ DeviceEvents # <<>> /\ DeviceEvents[1].ev = <<"wheel", 0, -5>>

\* C24: when a Click has returned, on whatever path, the last thing it did
\* is the 200 ms settle wait; the response is built only after that.
C24_ClickEndsWithSettleDelay ==
    (Executing /\ CurrentRequest.type = "Click" /\ mc.pc = "done") =>
        CurrentLog[Len(CurrentLog)].ev = Sleep(200)

\* mouse.rs 253-257: what one successful `ydotool click 0xC0` (0xC1, 0xC2)
\* does to the button: down, then up.
YdotoolClick == <<1, 0>>

\* The button transitions a log entry delivered.
Transitions(e) ==
    IF e.ev[1] = "key" THEN <<e.ev[3]>>
    ELSE IF e.ev[1] = "ydotool" /\ e.ev[3] THEN YdotoolClick
    ELSE <<>>

\* The transitions of the first k entries of a log, in order.
RECURSIVE Delivered(_, _)
Delivered(log, k) ==
    IF k = 0 THEN <<>> ELSE Delivered(log, k - 1) \o Transitions(log[k])

\* C29: when a Click has returned Ok, the transitions delivered for its
\* button are the requested states, `repeat` times over.
C29_DeliveredStatesAsRequested ==
    (Executing /\ CurrentRequest.type = "Click"
       /\ mc.pc = "done" /\ mc.result = Some("Ok")) =>
        Delivered(CurrentLog, Len(CurrentLog))
          = Repeated([k \in DOMAIN CurrentRequest.button_states |->
                        StateValue(CurrentRequest.button_states[k])],
                     CurrentRequest.repeat)

(***************************************************************************)
(* Properties of the backend loop of the top-level run.                    *)
(***************************************************************************)
\* The result of the backend being asked, as RunBackendResult sees it.
AskedResult ==
    IF enable[rIdx] = "atspi"
    THEN [pc |-> aPc, children |-> wOut, focus_extents |-> aFocus]
    ELSE [pc |-> cvPc, children |-> cvChildren, focus_extents |-> cvFocus]

\* C25: the backends are asked one at a time in list order, starting with
\* the first; the run moves on to the next one exactly when the one asked
\* returned an error or no target; the first non-empty result ends the
\* search: its targets and extents are the ones used and no backend is asked
\* afterwards.
C25_FirstNonEmptyBackendWins ==
    /\ [](/\ rPc = "call" => (rIdx \in DOMAIN enable /\ backend_used = "")
          /\ backend_used # "" =>
                /\ rIdx \in DOMAIN enable /\ backend_used = enable[rIdx]
                /\ children # <<>>
                /\ rPc \notin {"backends", "call"}
                /\ aPc = "idle" /\ cvPc = "idle"
          /\ backend_used = "" => children = <<>>)
    /\ [][/\ rIdx' \in {rIdx, rIdx + 1}
          /\ (rPc # "call" /\ rPc' = "call") =>
                /\ rIdx' = rIdx
                /\ IF enable[rIdx] = "atspi"
                   THEN aPc' = "connect" /\ cvPc' = "idle"
                   ELSE cvPc' = "screenshot" /\ aPc' = "idle"
          /\ rIdx' = rIdx + 1 =>
                /\ rPc = "call"
                /\ AskedResult.pc = "err" \/ (AskedResult.pc = "ok" /\ AskedResult.children = <<>>)
          /\ (backend_used = "" /\ backend_used' # "") =>
                /\ rPc = "call" /\ AskedResult.pc = "ok"
                /\ children' = AskedResult.children
                /\ focus_extents' = AskedResult.focus_extents
                /\ backend_used' = enable[rIdx]
          /\ backend_used # "" =>
                (children' = children /\ backend_used' = backend_used /\ rIdx' = rIdx)]_vars

\* The first backend failed or was empty and the second one's targets are used.
C25_Witness ==
    /\ Len(enable) = 2 /\ rIdx = 2
    /\ backend_used = enable[2] /\ children # <<>>
    /\ rPc = "overlay"

\* Every backend of the list was asked and none gave a target.
Exhausted == rIdx > Len(enable)

\* C26: when the list is exhausted without a target the run has no children,
\* goes to its error and nowhere else; no label is generated, the overlay is
\* not launched and no client of the command channel is started.
C26_ExhaustedIsAnError ==
    /\ [](Exhausted =>
            /\ backend_used = "" /\ children = <<>>
            /\ rPc \in {"backends", "fallback", "check", "error"}
            /\ hPc = "idle" /\ hResult = EmptyMap /\ hChildren = <<>>
            /\ aPc = "idle" /\ cvPc = "idle"
            /\ \A c \in Clients : cl[c] = ClientOff /\ conn[c] = ConnNone)
    /\ [][(Exhausted /\ rPc = "check") => rPc' = "error"]_vars

\* Two backends were asked, both without a target, and the run ended in error.
C26_Witness ==
    /\ Len(enable) = 2 /\ Exhausted
    /\ sockFile # 0
    /\ rPc = "error"

(***************************************************************************)
(* find_focused_window on its own: the atspi backend of a window-scoped    *)
(* run, from its connection to the return of the focus resolution, with    *)
(* every loop iteration eventually taken.                                  *)
(***************************************************************************)
FocusInit ==
    /\ NoOverlay
    /\ hChildren = <<>> /\ hAlphabet = <<>> /\ hPc = "idle"
    /\ hIdx = 0 /\ hNeeded = 0 /\ hResult = EmptyMap
    /\ accKids \in RunShapes
    /\ \E k \in [1..MaxVaried -> RunKinds] :
          /\ accExt = [p \in Paths |-> KindAt(k, p).ext]
          /\ accState = [p \in Paths |-> KindAt(k, p).state]
          /\ accRole = [p \in Paths |-> KindAt(k, p).role]
    /\ accParent = [p \in Paths |-> ParentOf(accKids, p)]
    /\ accBuild \in RunBuilds
    /\ overlay_target = "window"
    /\ window_system_type = "x11"
    /\ alphabet = RunAlphabet
    /\ enable = <<"atspi">>
    /\ current_level = <<>> /\ visited = {} /\ results = <<>> /\ depth = 0
    /\ wOut = <<>> /\ wFocus = None /\ wPc = "idle"
    /\ cvRects = <<>> /\ cvChildren = <<>> /\ cvFocus = None /\ cvPc = "idle"
    /\ aPc = "connect" /\ aStart = RootPath /\ aFocus = None /\ walks = <<>> /\ asked = <<>>
    /\ ff = FocusIdle
    /\ rPc = "call" /\ rIdx = 1 /\ children = <<>>
    /\ focus_extents = None /\ backend_used = ""
    /\ sockFile = 1
    /\ dm = [d \in Daemons |-> IF d = 1 THEN DaemonListening ELSE DaemonOff]
    /\ ServeIdle

FocusNext == AtspiConnect \/ AtspiBegin \/ FocusSearch \/ AtspiFocusFailed

SpecFocus == FocusInit /\ [][FocusNext]_vars /\ WF_vars(FocusNext)

\* C27: on every graph of the pool, the ones with a cycle and without a
\* focused window among them, find_focused_window returns (with a window,
\* with none, or with an error).
C27_FocusResolutionTerminates ==
    <>(aPc = "err" \/ ff.status \in {"ok", "err"})

(***************************************************************************)
(* The overlay's key handler (src/src/ui/overlay.rs)                       *)
(***************************************************************************)
MaxHints == 16
MaxKeys == 2

\* consts.rs 5: DEFAULT_ALPHABET, as its sequence of chars.
DefaultAlphabet ==
    <<"a", "s", "d", "f", "g", "q", "w", "e", "r", "t", "z", "x", "c", "v", "b",
      "h", "j", "k", "l", "y", "u", "i", "o", "p", "n", "m">>

\* Config::default(): mouse.move_pixel_sensitivity, mouse.scroll_pixel_sensitivity.
move_pixel_sensitivity == 10
scroll_pixel_sensitivity == 5

\* The i-th target of a discovery result: distinct rectangles of odd height.
TargetAt(i) == Rect(20 * i, 10 * i, 10, 7)

\* The discovery results and alphabets the overlay is shown for.
OverlayRuns ==
    {[n |-> 2, alphabet |-> DefaultAlphabet],
     [n |-> MaxHints, alphabet |-> DefaultAlphabet],
     [n |-> 3, alphabet |-> <<"a", "b">>]}

\* The state of main after line 99 called generate_hints on a non-empty
\* discovery result; the overlay's requests are recorded, their responses are
\* discarded by the handler (`let _ = send(..)`).
OverlayInit ==
    /\ NoOverlay
    /\ \E run \in OverlayRuns :
          /\ hChildren = [i \in 1..run.n |-> TargetAt(i)]
          /\ hAlphabet = run.alphabet
    /\ hPc = "start" /\ hIdx = 0 /\ hNeeded = 0 /\ hResult = EmptyMap
    /\ accKids = <<>> /\ accExt = <<>> /\ accState = <<>> /\ accRole = <<>>
    /\ accParent = <<>> /\ accBuild = <<>>
    /\ overlay_target = "window" /\ window_system_type = "wayland"
    /\ alphabet = hAlphabet /\ enable = <<"atspi">>
    /\ current_level = <<>> /\ visited = {} /\ results = <<>> /\ depth = 0
    /\ wOut = <<>> /\ wFocus = <<>> /\ wPc = "idle"
    /\ cvRects = <<>> /\ cvChildren = <<>> /\ cvFocus = <<>> /\ cvPc = "idle"
    /\ aPc = "idle" /\ aStart = 0 /\ aFocus = <<>> /\ walks = <<>> /\ asked = <<>>
    /\ ff = [status |-> "idle", stack |-> <<>>, first_window |-> <<>>,
             focused_node |-> <<>>, current_path |-> -1, found |-> <<>>]
    /\ rPc = "hints" /\ rIdx = 1 /\ children = hChildren
    /\ focus_extents = <<>> /\ backend_used = "atspi"
    /\ NoIpc

\* The modifier masks the handler tests in `state`.
KeyStates ==
    {{}, {"SHIFT_MASK"}, {"ALT_MASK"}, {"CONTROL_MASK"},
     {"SHIFT_MASK", "ALT_MASK"}, {"ALT_MASK", "CONTROL_MASK"}}

\* The digit keys pressed in the model, and char::to_digit(10) of each.
DigitKeys == {"2", "9"}

to_digit(ch) == IF ch = "2" THEN 2 ELSE IF ch = "9" THEN 9 ELSE 0

\* A u32 above I32_MAX is held as the integer with the same 32 bits in two's
\* complement; its two 16-bit halves.
U32Hi(e) == IF e >= 0 THEN e \div 65536 ELSE 32768 + ((e + I32_MAX + 1) \div 65536)
U32Lo(e) == IF e >= 0 THEN e % 65536 ELSE (e + I32_MAX + 1) % 65536
U32Of(hi, lo) ==
    IF hi >= 32768 THEN ((hi - 32768) * 65536 + lo) + I32_MIN ELSE hi * 65536 + lo

\* line 336: current_repeat * 10 + digit in u32: the low 32 bits of the
\* result, and whether the result has more.
MulAdd10(current_repeat, digit) ==
    LET lo == U32Lo(current_repeat) * 10 + digit
        hi == U32Hi(current_repeat) * 10 + (lo \div 65536)
    IN  [value |-> U32Of(hi % 65536, lo % 65536), overflow |-> hi >= 65536]

\* A key press: the char of the keyval in lower case, whether the keyval is
\* the upper-case letter (it is when Shift is held), and the modifier state.
\* "Escape" is the key whose keyval is cfg_mouse.exit_key.
KeyPress(ch, state) == [ch |-> ch, upper |-> "SHIFT_MASK" \in state, state |-> state]

Keys ==
    {KeyPress(ch, state) :
        ch \in {hAlphabet[i] : i \in DOMAIN hAlphabet} \cup DigitKeys \cup {"Escape"},
        state \in KeyStates}

\* A comparison of the lengths alone.
NoLongerThan(h, prefix) == Len(prefix) <= Len(h)

\* str::starts_with
starts_with(h, prefix) ==
    /\ Len(prefix) <= Len(h)
    /\ \A i \in 1..Len(prefix) : h[i] = prefix[i]

\* lines 306-312: (dx, dy) of a movement key.
Delta(ch_lower) ==
    CASE ch_lower = "h" -> <<-move_pixel_sensitivity, 0>>
      [] ch_lower = "l" -> <<move_pixel_sensitivity, 0>>
      [] ch_lower = "k" -> <<0, -move_pixel_sensitivity>>
      [] ch_lower = "j" -> <<0, move_pixel_sensitivity>>
      [] OTHER -> <<0, 0>>

\* i32 `/`: the quotient truncated towards zero.
TruncDiv(a, b) == IF a >= 0 THEN a \div b ELSE -((-a) \div b)

\* line 305: ch_lower == 'h' || ch_lower == 'j' || ch_lower == 'k' || ch_lower == 'l'
MovementKey(ch_lower) == ch_lower \in {"h", "j", "k", "l"}

\* The closure handed to timeout_add_local: its captured values.
Closure(hover, is_drag, tx, ty, btn, rep) ==
    [hover |-> hover, is_drag |-> is_drag, tx |-> tx, ty |-> ty, btn |-> btn, rep |-> rep]

\* lines 289-500: one call of the connect_key_pressed handler.
OverlayKey(key) ==
    /\ oPc = "shown"
    /\ oTyped' = Append(oTyped, key)
    /\ UNCHANGED oAwait
    /\ IF key.ch = "Escape"
       THEN /\ oPc' = "closed"
            /\ UNCHANGED <<input, repeat_count, oTimer, oSent>>
       ELSE IF MovementKey(key.ch)
       THEN /\ oSent' = Append(oSent,
                   IF "SHIFT_MASK" \in key.state
                   THEN Scroll(TruncDiv(Delta(key.ch)[1] * scroll_pixel_sensitivity,
                                        move_pixel_sensitivity),
                               TruncDiv(Delta(key.ch)[2] * scroll_pixel_sensitivity,
                                        move_pixel_sensitivity))
                   ELSE Move(Delta(key.ch)[1], Delta(key.ch)[2], FALSE))
            /\ UNCHANGED <<oPc, input, repeat_count, oTimer>>
       ELSE IF key.ch \in DigitKeys
       THEN LET sum == MulAdd10(repeat_count, to_digit(key.ch)) IN
            IF sum.overflow /\ overflow_checks
            THEN /\ oPc' = "panicked"
                 /\ UNCHANGED <<input, repeat_count, oTimer, oSent>>
            ELSE /\ repeat_count' = sum.value
                 /\ UNCHANGED <<oPc, input, oTimer, oSent>>
       ELSE LET current == Append(input, key.ch) IN
            IF ~\E h \in DOMAIN hResult : starts_with(h, current)
            THEN /\ input' = <<>>
                 /\ repeat_count' = 0
                 /\ UNCHANGED <<oPc, oTimer, oSent>>
            ELSE IF current \in DOMAIN hResult
            THEN LET child == hResult[current]
                     click_x == child.absolute_x + TruncDiv(child.width, 2)
                     click_y == child.absolute_y + TruncDiv(child.height, 2)
                     right == key.upper \/ "SHIFT_MASK" \in key.state
                     is_drag == ~right /\ "ALT_MASK" \in key.state
                     hover == ~right /\ ~is_drag /\ "CONTROL_MASK" \in key.state
                     repeat == IF repeat_count # 0 THEN repeat_count ELSE 1
                 IN  /\ input' = current
                     /\ oPc' = "hidden"
                     /\ oTimer' = Some(Closure(hover, is_drag, click_x, click_y,
                                               IF right THEN 2 ELSE 0, repeat))
                     /\ UNCHANGED <<repeat_count, oSent>>
            ELSE /\ input' = current
                 /\ UNCHANGED <<oPc, repeat_count, oTimer, oSent>>
    /\ UNCHANGED <<hvars, envvars, wvars, cvvars, avars, rvars, ipcvars>>

\* The drag with its move sent before the press.
ClosureRequestsMoveFirst(c) ==
    IF c.hover THEN <<Move(c.tx, c.ty, TRUE)>>
    ELSE IF c.is_drag
    THEN <<Move(c.tx, c.ty, TRUE), Click(0, 0, 0, <<1>>, 1, FALSE),
           Click(c.tx, c.ty, 0, <<0>>, 1, TRUE)>>
    ELSE <<Click(c.tx, c.ty, c.btn, <<1, 0>>, c.rep, TRUE)>>

\* lines 417-421, 460-502: the calls of send the closure makes, in order.
ClosureRequests(c) ==
    IF c.hover THEN <<Move(c.tx, c.ty, TRUE)>>
    ELSE IF c.is_drag
    THEN <<Click(0, 0, 0, <<1>>, 1, FALSE), Move(c.tx, c.ty, TRUE),
           Click(c.tx, c.ty, 0, <<0>>, 1, TRUE)>>
    ELSE <<Click(c.tx, c.ty, c.btn, <<1, 0>>, c.rep, TRUE)>>

\* lines 413-421 and 453-502: the timeout has fired; the closure calls send
\* for its next request.
OverlaySend ==
    /\ oPc = "hidden"
    /\ ~oAwait.inflight
    /\ oAwait.issued < Len(ClosureRequests(oTimer[1]))
    /\ oSent' = Append(oSent, ClosureRequests(oTimer[1])[oAwait.issued + 1])
    /\ oAwait' = [issued |-> oAwait.issued + 1, inflight |-> TRUE]
    /\ UNCHANGED <<oPc, input, repeat_count, oTimer, oTyped>>
    /\ UNCHANGED <<hvars, envvars, wvars, cvvars, avars, rvars, ipcvars>>

\* send has returned (its Ok or Err is logged and dropped); after the last
\* request the guard is dropped and the application quits (lines 423-427,
\* 505-509).
OverlayReturn ==
    /\ oPc = "hidden"
    /\ oAwait.inflight
    /\ oAwait' = [oAwait EXCEPT !.inflight = FALSE]
    /\ IF oAwait.issued = Len(ClosureRequests(oTimer[1]))
       THEN oPc' = "quit" /\ oTimer' = None
       ELSE UNCHANGED <<oPc, oTimer>>
    /\ UNCHANGED <<input, repeat_count, oSent, oTyped>>
    /\ UNCHANGED <<hvars, envvars, wvars, cvvars, avars, rvars, ipcvars>>

OverlayNext ==
    \/ HintStart \/ HintIter \/ HintReturn \/ RunLaunch
    \/ \E key \in Keys : Len(oTyped) < MaxKeys /\ OverlayKey(key)
    \/ OverlaySend \/ OverlayReturn

SpecOverlay == OverlayInit /\ [][OverlayNext]_vars

\* The key presses that type a label: its characters in order, no modifier.
Typing(label) == [i \in 1..Len(label) |-> KeyPress(label[i], {})]

\* The request(s) of an unmodified full match of `label`: one left click at
\* the centre of its target.
RequestsFor(label) ==
    <<Click(hResult[label].absolute_x + TruncDiv(hResult[label].width, 2),
            hResult[label].absolute_y + TruncDiv(hResult[label].height, 2),
            0, <<1, 0>>, 1, TRUE)>>

\* C28: for every label of the map built from the configured alphabet, once
\* the label's characters have been typed in order into the freshly shown
\* overlay, the overlay has matched the label: the click on the label's
\* target is armed or has been sent, and nothing else was sent.
C28_EveryLabelTypeable ==
    \A label \in DOMAIN hResult :
        (oPc # "off" /\ oTyped = Typing(label)) =>
            \/ /\ oPc = "hidden"
               /\ oSent = SubSeq(RequestsFor(label), 1, oAwait.issued)
               /\ oTimer = Some(Closure(FALSE, FALSE, RequestsFor(label)[1].x,
                                        RequestsFor(label)[1].y, 0, 1))
            \/ /\ oPc = "quit"
               /\ oSent = RequestsFor(label)

(***************************************************************************)
(* Progress of the exchange: one daemon that does not crash, two processes *)
(* at its endpoint, every device write and external command returning.     *)
(***************************************************************************)
\* The requests of the clients whose progress is followed.
LivePool == {Move(100, 200, TRUE), Scroll(0, -1), Click(100, 200, 0, <<1, 0>>, 1, TRUE)}

\* The daemon is in its accept loop (hintsd.rs 35), built without overflow
\* checks at scale factor 1; the second process is a client or a foreign peer.
LiveInit ==
    /\ NoOverlay
    /\ NoDiscovery
    /\ sockFile = Server
    /\ dm = [d \in Daemons |-> IF d = Server THEN DaemonListening ELSE DaemonOff]
    /\ scale_factor = 1 /\ overflow_checks = FALSE
    /\ backlog = <<>> /\ accepted = <<>>
    /\ srv = SrvAccept /\ mc = MouseIdle /\ devLog = <<>>
    /\ \E first \in LivePool, second \in SecondPool \cup PeerFrames :
          cl = [c \in Clients |->
                  IF c = 1 THEN ClientOf(first)
                  ELSE IF c > 2 THEN ClientOff
                  ELSE IF second \in SecondPool THEN ClientOf(second)
                  ELSE PeerOf(second)]
    /\ conn = [c \in Clients |-> ConnNone]

\* The daemon's thread: the accept loop and handle_connection.
DaemonStep ==
    \/ DaemonAccept \/ DaemonReadLen \/ DaemonReadPayload \/ DaemonDecode
    \/ DaemonExec \/ DaemonRespond \/ DaemonWritePayload

\* The thread of a process in ipc::send.
SendStep(c) ==
    \/ ClientConnect(c) \/ ClientWriteLen(c) \/ ClientWritePayload(c)
    \/ ClientReadLen(c) \/ ClientReadPayload(c) \/ ClientDecode(c)

\* What a foreign peer does, and the end of a process, are up to the peer.
LiveNext ==
    \/ DaemonStep
    \/ \E c \in Clients : SendStep(c) \/ PeerWrite(c) \/ ClientGone(c)

\* Every thread that can run does run: the daemon's and each client's; no
\* peer is obliged to write or to close its stream.
SpecLive ==
    /\ LiveInit
    /\ [][LiveNext]_vars
    /\ WF_vars(DaemonStep)
    /\ \A c \in Clients : WF_vars(SendStep(c))

\* C30: every client that connected and sent a complete well-formed request
\* eventually has its response returned by send (unless the client process
\* itself is ended while it waits), whatever the other process does.
C30_EveryRequestAnswered ==
    \A c \in Clients :
        (cl[c].kind = "send" /\ cl[c].frames = 1)
            ~> (cl[c].pc = "gone" \/ (cl[c].pc = "returned" /\ IsSome(cl[c].ret)))

(***************************************************************************)
(* Properties of the level loop of one target enumeration.                 *)
(***************************************************************************)
\* The paths first entered into `visited` by the step, the null path aside.
NewlyQueried == (visited' \ visited) \ {NullPath}

\* The number of child paths the service reports for path p.
KidCount(p) == IF IsSome(accKids[p]) THEN Len(accKids[p][1]) ELSE 0

RECURSIVE SumOver(_, _)
SumOver(S, f) ==
    IF S = {} THEN 0
    ELSE LET p == CHOOSE q \in S : TRUE IN f[p] + SumOver(S \ {p}, f)

\* The number of occurrences of r in the sequence s.
Occurrences(s, r) == Cardinality({i \in DOMAIN s : s[i] = r})

\* C31: within one enumeration every path is expanded at most once. A level
\* iteration (a step that raises depth) queries only paths that were not visited before, each of them
\* once: the next level holds exactly the children of the newly visited
\* paths, the output grows by at most one target per newly visited path, and
\* no path ever leaves the visited set; so the output never holds more
\* targets than there are visited paths.
C31_EachPathExpandedOnce ==
    /\ [](Len(wOut) <= Cardinality(Queried))
    /\ [][(wPc = "loop" /\ depth' = depth + 1) =>
            /\ visited \subseteq visited'
            /\ Len(wOut') - Len(wOut) <= Cardinality(NewlyQueried)
            /\ Len(current_level') = SumOver(NewlyQueried, [p \in Paths |-> KidCount(p)])
            /\ \A i \in DOMAIN current_level' :
                  \E p \in NewlyQueried :
                      current_level'[i] \in Range(accKids[p][1])]_vars

\* A finished enumeration of the graph whose root lists node 1 twice and in
\* which node 1 alone reports the rectangle (50, 50, 10, 10): the rectangle
\* is in the output once, and node 3 below both 1 and 2 was reached.
C31_Witness ==
    /\ wPc = "done"
    /\ accKids[RootPath] = Some(<<1, 2, 1>>)
    /\ accExt[1] = Some(Rect(50, 50, 10, 10))
    /\ accExt[2] = None
    /\ wFocus = None
    /\ Occurrences(wOut, Rect(50, 50, 10, 10)) = 1
    /\ 3 \in Queried

(***************************************************************************)
(* One target enumeration of a deep graph from a known start path.         *)
(***************************************************************************)
\* Chains longer than MAX_DEPTH: a plain chain, a chain closed into a ring,
\* and a chain with a second, shorter way from the root to node 3.
DeepShapes ==
    { [p \in Paths |-> IF p < LastPath THEN Some(<<p + 1>>) ELSE Some(<<>>)],
      [p \in Paths |-> IF p < LastPath THEN Some(<<p + 1>>) ELSE Some(<<1>>)],
      [p \in Paths |-> IF p = RootPath THEN Some(<<1, 3>>)
                       ELSE IF p < LastPath THEN Some(<<p + 1>>) ELSE Some(<<>>)] }

\* walk_iterative(start_path, out, bus, focus_extents) is entered (line 256);
\* every node reports a rectangle of its own.
DeepInit ==
    /\ NoOverlay
    /\ hChildren = <<>> /\ hAlphabet = <<>> /\ hPc = "idle"
    /\ hIdx = 0 /\ hNeeded = 0 /\ hResult = EmptyMap
    /\ accKids \in DeepShapes
    /\ accExt = [p \in Paths |-> Some(Rect(p, 2 * p, 10, 10))]
    /\ accState = <<>> /\ accRole = <<>> /\ accParent = <<>>
    /\ accBuild = [p \in Paths |-> TRUE]
    /\ overlay_target = "window" /\ window_system_type = "wayland"
    /\ alphabet = <<>> /\ enable = <<>>
    /\ aStart \in {RootPath, 1, 2}
    /\ current_level = <<aStart>> /\ visited = {} /\ results = <<>> /\ depth = 0
    /\ wOut = <<>> /\ wPc = "loop"
    /\ wFocus \in {None, Some(Rect(0, 0, 200, 200))}
    /\ cvRects = <<>> /\ cvChildren = <<>> /\ cvFocus = None /\ cvPc = "idle"
    /\ aPc = "idle" /\ aFocus = <<>> /\ walks = <<>> /\ asked = <<>>
    /\ ff = [status |-> "idle", stack |-> <<>>, first_window |-> <<>>,
             focused_node |-> <<>>, current_path |-> -1, found |-> <<>>]
    /\ rPc = "idle" /\ rIdx = 0 /\ children = <<>>
    /\ focus_extents = <<>> /\ backend_used = ""
    /\ NoIpc

SpecDeep == DeepInit /\ [][WalkNext]_vars

\* The paths one edge away from a path of S.
Successors(S) ==
    UNION {Range(accKids[p][1]) : p \in {q \in S \ {NullPath} : IsSome(accKids[q])}}

\* The paths at most k edges away from a path of S.
RECURSIVE Within(_, _)
Within(S, k) == IF k = 0 THEN S ELSE Within(S \cup Successors(S), k - 1)

\* The paths whose shortest distance from the start path is below MAX_DEPTH.
Near == Within({aStart}, MAX_DEPTH - 1)

\* C32: the enumeration runs at most MAX_DEPTH = 50 level iterations, the
\* start path being the first level: every queried path is fewer than 50
\* edges away from the start path, and every target of the output is the
\* rectangle of such a path.
C32_AtMostFiftyLevels ==
    /\ depth <= MAX_DEPTH
    /\ Queried \subseteq Near
    /\ \A i \in DOMAIN wOut : \E p \in Near : accExt[p] = Some(wOut[i])

\* A finished enumeration of the plain chain from the root: the node 49 edges
\* away was queried and is a target, the nodes 50 and 51 edges away were not.
C32_Witness ==
    /\ wPc = "done"
    /\ aStart = RootPath
    /\ accKids[LastPath] = Some(<<>>)
    /\ accKids[RootPath] = Some(<<1>>)
    /\ (MAX_DEPTH - 1) \in Queried
    /\ MAX_DEPTH \notin Queried
    /\ wOut[Len(wOut)] = accExt[MAX_DEPTH - 1][1]
    /\ LastPath \in Paths \ Near

(***************************************************************************)
(* find_focused_window on trees with window-like nodes of every kind.      *)
(***************************************************************************)
\* The node kinds of the run, and a window-like node that is not focused and
\* whose get_extents fails.
ResolveKinds == RunKinds \cup {Kind("none", TRUE, None)}

\* collect_children is called for the window target (line 31).
ResolveInit ==
    /\ NoOverlay
    /\ hChildren = <<>> /\ hAlphabet = <<>> /\ hPc = "idle"
    /\ hIdx = 0 /\ hNeeded = 0 /\ hResult = EmptyMap
    /\ accKids \in RunShapes
    /\ \E k \in [1..MaxVaried -> ResolveKinds] :
          /\ accExt = [p \in Paths |-> KindAt(k, p).ext]
          /\ accState = [p \in Paths |-> KindAt(k, p).state]
          /\ accRole = [p \in Paths |-> KindAt(k, p).role]
    /\ accParent = [p \in Paths |-> ParentOf(accKids, p)]
    /\ accBuild \in RunBuilds
    /\ overlay_target = "window"
    /\ window_system_type \in {"x11", "wayland"}
    /\ alphabet = RunAlphabet
    /\ enable = <<"atspi">>
    /\ current_level = <<>> /\ visited = {} /\ results = <<>> /\ depth = 0
    /\ wOut = <<>> /\ wFocus = None /\ wPc = "idle"
    /\ cvRects = <<>> /\ cvChildren = <<>> /\ cvFocus = None /\ cvPc = "idle"
    /\ aPc = "connect" /\ aStart = RootPath /\ aFocus = None /\ walks = <<>> /\ asked = <<>>
    /\ ff = FocusIdle
    /\ rPc = "call" /\ rIdx = 1 /\ children = <<>>
    /\ focus_extents = None /\ backend_used = ""
    /\ sockFile = 1
    /\ dm = [d \in Daemons |-> IF d = 1 THEN DaemonListening ELSE DaemonOff]
    /\ ServeIdle

SpecResolve == ResolveInit /\ [][FocusNext]_vars

\* The node reports Focused or Active.
FocusedAt(p) == StateAt(Acc, p) \in {"focused", "active"}

\* The nearest window-like node on the parent chain of p, p included; None
\* when the chain ends (or goes on for n steps) without one.
RECURSIVE WindowAncestor(_, _)
WindowAncestor(p, n) ==
    IF WindowishAt(Acc, p) THEN Some(p)
    ELSE IF n = 0 \/ ParentAt(Acc, p) = None THEN None
    ELSE WindowAncestor(ParentAt(Acc, p)[1], n - 1)

\* The node the depth-first loop is about to pop.
Popped == ff.stack[Len(ff.stack)]

\* C33: what focus resolution returns, by priority: (1) a node that is both
\* focused/active and window-like, returned when the search first meets one;
\* otherwise, the search being exhausted, (2) the nearest window-like ancestor
\* of the first focused non-window node; otherwise (3) the first window-like
\* node the search encountered, which the search therefore remembers as soon
\* as it meets one; otherwise nothing.
C33_FocusPriority ==
    /\ [](ff.status = "ok" =>
            \/ /\ IsSome(ff.found)
               /\ FocusedAt(ff.found[1][1])
               /\ WindowishAt(Acc, ff.found[1][1])
            \/ /\ ff.stack = <<>>
               /\ IsSome(ff.focused_node)
               /\ IsSome(WindowAncestor(ff.focused_node[1], LastPath))
               /\ IsSome(ff.found)
               /\ ff.found[1][1] = WindowAncestor(ff.focused_node[1], LastPath)[1]
            \/ /\ ff.stack = <<>>
               /\ \/ ff.focused_node = None
                  \/ WindowAncestor(ff.focused_node[1], LastPath) = None
               /\ ff.found = ff.first_window)
    /\ [][(/\ aPc = "focus" /\ ff.status = "dfs" /\ ff.stack # <<>>
           /\ BuildAt(Acc, Popped)
           /\ WindowishAt(Acc, Popped) /\ ~FocusedAt(Popped)
           /\ ff.first_window = None)
          => (IsSome(ff'.first_window) /\ ff'.first_window[1][1] = Popped)]_vars

(***************************************************************************)
(* Properties of the geometry fallback of collect_children.                *)
(***************************************************************************)
\* find_focused_window has returned Ok(None) and collect_children went on.
FocusYieldedNothing ==
    /\ ff.status = "ok" /\ ff.found = None
    /\ aPc \in {"walk", "retry", "return", "ok", "err"}

\* The first geometry a sequence of queries obtained, None when none did.
FirstObtained(qs) ==
    LET got == SelectSeq(qs, LAMBDA q : IsSome(q.answer))
    IN  IF got = <<>> THEN None ELSE got[1].answer

\* The order of the queries and what follows from their answers: the X11
\* query is made only after a Wayland query that yielded nothing, no query
\* follows one that yielded a geometry, the first geometry obtained is the
\* FocusRegion, and the first enumeration starts at the root with it.
FallbackOutcome ==
    /\ Len(asked) <= 2
    /\ \A i \in DOMAIN asked : i < Len(asked) => asked[i].answer = None
    /\ Len(asked) = 2 => (asked[1].query = "wayland" /\ asked[2].query = "x11")
    /\ aFocus = FirstObtained(asked)
    /\ aStart = RootPath
    /\ aPc = "walk" => (wFocus = aFocus /\ (visited = {} => current_level = <<RootPath>>))
    /\ walks # <<>> => (walks[1].start = RootPath /\ walks[1].focus = aFocus)

\* C34 as stated: whenever focus resolution yielded nothing, the Wayland
\* geometry query is made first, the X11 query only if it yielded nothing,
\* and the enumeration is unscoped only if both were made and yielded
\* nothing; the first geometry obtained is the FocusRegion of the
\* enumeration from the root.
C34_WaylandQueryFirst ==
    FocusYieldedNothing =>
        /\ asked # <<>> /\ asked[1].query = "wayland"
        /\ asked[1].answer = None => Len(asked) = 2
        /\ FallbackOutcome

\* C34 as amended: on a Wayland window system the queries are made in the
\* order Wayland, then X11 only if Wayland yielded nothing; on an X11 window
\* system only the X11 query is made; the enumeration from the root is
\* unscoped only if every query made yielded nothing, and otherwise its
\* FocusRegion is the first geometry obtained.
C34_FallbackOrderBySession ==
    FocusYieldedNothing =>
        /\ asked # <<>>
        /\ window_system_type = "wayland" =>
              /\ asked[1].query = "wayland"
              /\ asked[1].answer = None => Len(asked) = 2
        /\ window_system_type = "x11" =>
              (Len(asked) = 1 /\ asked[1].query = "x11")
        /\ FallbackOutcome

\* On Wayland the compositor query yielded nothing and the X11 query a
\* geometry, which scoped the enumeration from the root.
C34_Witness ==
    /\ FocusYieldedNothing
    /\ window_system_type = "wayland"
    /\ Len(asked) = 2
    /\ asked[1].answer = None
    /\ IsSome(asked[2].answer)
    /\ walks # <<>>
    /\ walks[1].focus = asked[2].answer

(***************************************************************************)
(* walk_iterative with the futures of a level completing in any order      *)
(* (src/src/backends/atspi_backend.rs 263-328).                            *)
(***************************************************************************)
\* The trees of the run, every rectangle of the pool on the varied paths,
\* a start path and a FocusRegion; walk_iterative is entered.
LevelInit ==
    /\ NoOverlay
    /\ hChildren = <<>> /\ hAlphabet = <<>> /\ hPc = "idle"
    /\ hIdx = 0 /\ hNeeded = 0 /\ hResult = EmptyMap
    /\ accKids \in RunShapes
    /\ accExt \in ExtMaps
    /\ accState = <<>> /\ accRole = <<>> /\ accParent = <<>>
    /\ accBuild \in RunBuilds
    /\ overlay_target = "window" /\ window_system_type = "wayland"
    /\ alphabet = <<>> /\ enable = <<>>
    /\ aStart \in {RootPath, 1}
    /\ current_level = <<aStart>> /\ visited = {} /\ results = <<>> /\ depth = 0
    /\ wOut = <<>> /\ wPc = "loop"
    /\ wFocus \in {None, Some(Rect(0, 0, 60, 60))}
    /\ cvRects = <<>> /\ cvChildren = <<>> /\ cvFocus = None /\ cvPc = "idle"
    /\ aPc = "idle" /\ aFocus = <<>> /\ walks = <<>> /\ asked = <<>>
    /\ ff = [status |-> "idle", stack |-> <<>>, first_window |-> <<>>,
             focused_node |-> <<>>, current_path |-> -1, found |-> <<>>]
    /\ rPc = "idle" /\ rIdx = 0 /\ children = <<>>
    /\ focus_extents = <<>> /\ backend_used = ""
    /\ NoIpc

\* lines 263-306: the loop condition holds; depth, the retain of line 267,
\* the break of line 269, and the futures of the level are created.
LevelBegin ==
    /\ wPc = "loop"
    /\ LoopGuard(current_level, depth)
    /\ depth' = depth + 1
    /\ LET retained == Retain(current_level, visited) IN
          /\ current_level' = retained
          /\ visited' = visited \cup Range(retained)
          /\ results' = [i \in DOMAIN retained |-> None]
          /\ wPc' = IF retained = <<>> THEN "done" ELSE "await"
    /\ UNCHANGED <<hvars, envvars, ovars, ipcvars, avars, rvars, cvvars, wOut, wFocus>>

\* The outputs in the order the futures completed: the output takes the
\* first free slot.
StoreInCompletionOrder(slots, i, output) ==
    LET free == CHOOSE j \in DOMAIN slots :
                    slots[j] = None /\ \A k \in 1..(j - 1) : slots[k] # None
    IN  [slots EXCEPT ![free] = Some(output)]

\* line 308: join_all keeps the output of the i-th future at position i.
Store(slots, i, output) == [slots EXCEPT ![i] = Some(output)]

\* lines 273-306: the future of the i-th path of the level completes.
QueryDone(i) ==
    /\ wPc = "await"
    /\ i \in DOMAIN results
    /\ results[i] = None
    /\ results' = Store(results, i,
                        QueryNode(current_level[i], Built(accKids), Built(accExt)))
    /\ UNCHANGED <<hvars, envvars, ovars, ipcvars, avars, rvars, cvvars,
                   current_level, visited, depth, wOut, wFocus, wPc>>

\* lines 312-325: the pushes to `out` of the loop over `results`.
RECURSIVE MergeTargets(_, _)
MergeTargets(rs, focus) ==
    IF rs = <<>> THEN <<>>
    ELSE (IF IsSome(Head(rs)[1].child) /\ InsideFocus(Head(rs)[1].child[1], focus)
          THEN <<Head(rs)[1].child[1]>> ELSE <<>>)
         \o MergeTargets(Tail(rs), focus)

\* line 326: current_level.extend(children_paths) of the loop over `results`.
RECURSIVE MergeChildren(_)
MergeChildren(rs) ==
    IF rs = <<>> THEN <<>>
    ELSE Head(rs)[1].children \o MergeChildren(Tail(rs))

\* lines 308-327: join_all has returned: every future of the level has
\* completed; the results are merged in their order.
LevelMerge ==
    /\ wPc = "await"
    /\ \A i \in DOMAIN results : IsSome(results[i])
    /\ current_level' = MergeChildren(results)
    /\ wOut' = wOut \o MergeTargets(results, wFocus)
    /\ results' = <<>>
    /\ wPc' = "loop"
    /\ UNCHANGED <<hvars, envvars, ovars, ipcvars, avars, rvars, cvvars,
                   visited, depth, wFocus>>

LevelNext ==
    \/ LevelBegin
    \/ \E i \in DOMAIN results : QueryDone(i)
    \/ LevelMerge
    \/ WalkExit

SpecLevel == LevelInit /\ [][LevelNext]_vars

\* The enumeration with every level queried in its own order, one level after
\* the other: the state after the last iteration.
RECURSIVE Enumeration(_)
Enumeration(st) ==
    IF ~LoopGuard(st.level, st.depth) THEN st
    ELSE LET next == WalkBody(st, Built(accKids), Built(accExt), wFocus)
         IN  IF next.brk THEN next ELSE Enumeration(next)

\* A future of the level is still pending.
QueriesPending == wPc = "await" /\ \E i \in DOMAIN results : results[i] = None

\* C35: for a fixed tree the targets of one enumeration, contents and
\* order, do not depend on the order in which the queries of a level
\* complete: the finished enumeration has the output of the enumeration that
\* queries each level in order; and while a query of a level is pending,
\* the output, the visited set and the level are not touched.
C35_OutputIndependentOfCompletionOrder ==
    /\ [](wPc = "done" =>
            wOut = Enumeration([level |-> <<aStart>>, visited |-> {}, depth |-> 0,
                                out |-> <<>>, brk |-> FALSE]).out)
    /\ [][QueriesPending =>
            (wOut' = wOut /\ visited' = visited /\ current_level' = current_level)]_vars

\* The root's level of two paths with different rectangles is awaited, and
\* the query of the second path has completed before the one of the first.
C35_Witness ==
    /\ wPc = "await"
    /\ current_level = <<1, 2>>
    /\ results[1] = None
    /\ IsSome(results[2]) /\ IsSome(results[2][1].child)
    /\ IsSome(accExt[1]) /\ accExt[1] # accExt[2]
    /\ PositiveExtents(accExt[1][1])

\* The enumeration of such a tree has finished with both targets, the first
\* path's before the second's.
C35_Finished ==
    /\ wPc = "done"
    /\ aStart = RootPath
    /\ accKids[RootPath] = Some(<<1, 2>>)
    /\ IsSome(accExt[1]) /\ IsSome(accExt[2]) /\ accExt[1] # accExt[2]
    /\ Len(wOut) >= 2
    /\ wOut[1] = accExt[1][1] /\ wOut[2] = accExt[2][1]

(***************************************************************************)
(* Properties of the overlay's requests on a label match.                  *)
(***************************************************************************)
\* A label was matched: the window is hidden and the closure is armed,
\* running or done; the buffer holds the matched label.
LabelMatched == oPc \in {"hidden", "quit"}

\* The key press that completed the match.
LastKey == oTyped[Len(oTyped)]

\* The requests sent after the match: every movement key pressed before it
\* has sent one request.
SentOnMatch ==
    SubSeq(oSent,
           Len(SelectSeq(oTyped, LAMBDA k : k.ch \in {"h", "j", "k", "l"})) + 1,
           Len(oSent))

\* The centre of the matched label's target.
CentreX == hResult[input].absolute_x + TruncDiv(hResult[input].width, 2)
CentreY == hResult[input].absolute_y + TruncDiv(hResult[input].height, 2)

\* Button down where the pointer is, the move to the centre, button up there.
DragRequests ==
    <<Click(0, 0, 0, <<1>>, 1, FALSE),
      Move(CentreX, CentreY, TRUE),
      Click(CentreX, CentreY, 0, <<0>>, 1, TRUE)>>

IsPrefix(s, t) == Len(s) <= Len(t) /\ s = SubSeq(t, 1, Len(s))

\* The closure calls send only when its previous call has returned.
OneRequestAtATime ==
    (oPc = "hidden" /\ oSent' # oSent) => ~oAwait.inflight

\* C36 as stated: on a label match with the drag modifier (Alt) held the
\* overlay sends exactly the three requests of the drag, in order, each
\* after the previous one has returned.
C36_DragSendsThree ==
    /\ []((LabelMatched /\ "ALT_MASK" \in LastKey.state) =>
            /\ IsPrefix(SentOnMatch, DragRequests)
            /\ oPc = "quit" => SentOnMatch = DragRequests)
    /\ [][OneRequestAtATime]_vars

\* C36 as amended: the same, on a label match with the drag modifier held
\* and the right-click modifier (Shift, an upper-case letter) not held.
C36_DragWithoutShiftSendsThree ==
    /\ []((/\ LabelMatched
           /\ "ALT_MASK" \in LastKey.state
           /\ "SHIFT_MASK" \notin LastKey.state /\ ~LastKey.upper) =>
            /\ IsPrefix(SentOnMatch, DragRequests)
            /\ oPc = "quit" => SentOnMatch = DragRequests)
    /\ [][OneRequestAtATime]_vars

\* A drag that has run to its end: Alt without Shift on the last key of a
\* label, three requests sent, the application has quit.
C36_Witness ==
    /\ oPc = "quit"
    /\ "ALT_MASK" \in LastKey.state
    /\ "SHIFT_MASK" \notin LastKey.state
    /\ Len(oSent) = 3
    /\ oSent[1].type = "Click" /\ oSent[2].type = "Move" /\ oSent[3].type = "Click"
    /\ oSent[2].x = CentreX /\ oSent[2].y = CentreY

(***************************************************************************)
(* The overlay with a long numeric prefix typed before the label.          *)
(***************************************************************************)
\* The key presses followed when a repeat count is typed: ten digits and the
\* key that ends the session.
MaxDigits == 10

\* A digit, the label of the first target, and a char no label starts with,
\* each without a modifier.
RepeatKeys == {KeyPress(ch, {}) : ch \in {"9", "a", "c"}}

\* As OverlayInit, for two targets labelled from the alphabet "ab", in a
\* build with or without overflow checks.
RepeatInit ==
    /\ NoOverlay
    /\ hChildren = [i \in 1..2 |-> TargetAt(i)]
    /\ hAlphabet = <<"a", "b">>
    /\ hPc = "start" /\ hIdx = 0 /\ hNeeded = 0 /\ hResult = EmptyMap
    /\ accKids = <<>> /\ accExt = <<>> /\ accState = <<>> /\ accRole = <<>>
    /\ accParent = <<>> /\ accBuild = <<>>
    /\ overlay_target = "window" /\ window_system_type = "wayland"
    /\ alphabet = hAlphabet /\ enable = <<"atspi">>
    /\ current_level = <<>> /\ visited = {} /\ results = <<>> /\ depth = 0
    /\ wOut = <<>> /\ wFocus = <<>> /\ wPc = "idle"
    /\ cvRects = <<>> /\ cvChildren = <<>> /\ cvFocus = <<>> /\ cvPc = "idle"
    /\ aPc = "idle" /\ aStart = 0 /\ aFocus = <<>> /\ walks = <<>> /\ asked = <<>>
    /\ ff = [status |-> "idle", stack |-> <<>>, first_window |-> <<>>,
             focused_node |-> <<>>, current_path |-> -1, found |-> <<>>]
    /\ rPc = "hints" /\ rIdx = 1 /\ children = hChildren
    /\ focus_extents = <<>> /\ backend_used = "atspi"
    /\ sockFile = 0
    /\ dm = [d \in Daemons |-> DaemonOff]
    /\ scale_factor = 1 /\ overflow_checks \in BOOLEAN
    /\ backlog = <<>> /\ accepted = <<>>
    /\ srv = SrvAccept /\ mc = MouseIdle /\ devLog = <<>>
    /\ cl = [c \in Clients |-> ClientOff]
    /\ conn = [c \in Clients |-> ConnNone]

RepeatNext ==
    \/ HintStart \/ HintIter \/ HintReturn \/ RunLaunch
    \/ \E key \in RepeatKeys : Len(oTyped) < MaxDigits + 1 /\ OverlayKey(key)
    \/ OverlaySend \/ OverlayReturn

SpecRepeat == RepeatInit /\ [][RepeatNext]_vars

\* The typed buffer and the digits typed since the last reset, after the
\* first n key presses: a hint character that makes the buffer a prefix of no
\* label empties both.
RECURSIVE Replay(_)
Replay(n) ==
    IF n = 0 THEN [buffer |-> <<>>, digits |-> <<>>]
    ELSE LET before == Replay(n - 1)
             ch == oTyped[n].ch
         IN  IF ch \in {"Escape", "h", "j", "k", "l"} THEN before
             ELSE IF ch \in DigitKeys
             THEN [before EXCEPT !.digits = Append(@, to_digit(ch))]
             ELSE IF \E h \in DOMAIN hResult : IsPrefix(Append(before.buffer, ch), h)
             THEN [before EXCEPT !.buffer = Append(@, ch)]
             ELSE [buffer |-> <<>>, digits |-> <<>>]

\* The decimal number a sequence of digits forms, as a u32; None when the
\* number is not below 2^32.
RECURSIVE Decimal(_)
Decimal(digits) ==
    IF digits = <<>> THEN Some(0)
    ELSE LET front == Decimal(SubSeq(digits, 1, Len(digits) - 1)) IN
         IF front = None THEN None
         ELSE LET sum == MulAdd10(front[1], digits[Len(digits)]) IN
              IF sum.overflow THEN None ELSE Some(sum.value)

\* The number typed before the matching key press.
TypedRepeat == Decimal(Replay(Len(oTyped)).digits)

\* C37: on a label match with no modifier the overlay sends exactly one
\* Click: at the centre of the target, left button, states [1, 0], absolute,
\* its repeat the decimal number formed by the digits typed since the last
\* reset, or 1 if that number is 0; and a key press that makes the buffer a
\* prefix of no label leaves the buffer empty and the repeat count 0.
C37_OneLeftClickWithTypedRepeat ==
    /\ (LabelMatched /\ LastKey.state = {} /\ ~LastKey.upper) =>
          /\ TypedRepeat # None
          /\ LET click == Click(CentreX, CentreY, 0, <<1, 0>>,
                                IF TypedRepeat[1] = 0 THEN 1 ELSE TypedRepeat[1], TRUE)
             IN  /\ IsPrefix(SentOnMatch, <<click>>)
                 /\ oPc = "quit" => SentOnMatch = <<click>>
    /\ (/\ oTyped # <<>>
        /\ LastKey.ch \notin {"Escape", "h", "j", "k", "l"} \cup DigitKeys
        /\ ~\E h \in DOMAIN hResult :
              IsPrefix(Append(Replay(Len(oTyped) - 1).buffer, LastKey.ch), h)) =>
          input = <<>> /\ repeat_count = 0

\* The key press the step handles, when the step is a call of the handler.
HandledKey == oTyped'[Len(oTyped')]

\* C38: after every key event handled by the overlay the typed buffer is
\* empty or a prefix (possibly the whole) of at least one label of the map;
\* a movement or scroll key, a digit and the exit key leave the buffer as it
\* was.
C38_BufferIsLabelPrefix ==
    /\ [](input = <<>> \/ \E label \in DOMAIN hResult : IsPrefix(input, label))
    /\ [][(/\ oTyped' # oTyped
           /\ HandledKey.ch \in {"h", "j", "k", "l", "Escape"} \cup DigitKeys) =>
              input' = input]_vars

\* Of the labels "aa", "ab" and "ba", the first char of two is in the buffer
\* after a digit and "a" were pressed, and the overlay is still shown.
C38_Witness ==
    /\ oPc = "shown"
    /\ Len(oTyped) = 2 /\ oTyped[1].ch \in DigitKeys
    /\ input = <<"a">>
    /\ input \notin DOMAIN hResult
    /\ <<"a", "b">> \in DOMAIN hResult
    /\ repeat_count = to_digit(oTyped[1].ch)

(***************************************************************************)
(* The FocusRegion of a result of the accessibility backend.               *)
(***************************************************************************)
\* C39: every FocusRegion the accessibility backend returns has width > 0
\* and height > 0; in particular, when the geometry of the resolved focus
\* window cannot be obtained, the result carries no zero-size FocusRegion.
C39_FocusRegionHasPositiveSize ==
    (aPc = "ok" /\ IsSome(aFocus)) =>
        aFocus[1].width > 0 /\ aFocus[1].height > 0

====
